---- MODULE Spec2Model ----
(***************************************************************************)
(* Invoice-Agent: the record store of database_manager.py (purchase        *)
(* orders, invoices, validation reports), the reconciliation run           *)
(* validate_invoice and the approval decision update_approval_status; the  *)
(* mailbox orchestrator of email_monitor.py (process_email,                *)
(* process_attachments, the persisted set of processed messages); and two  *)
(* connections writing to the store at the same time.                      *)
(*                                                                         *)
(* A table is the sequence of its rows; a row's id is its index (ids are   *)
(* AUTOINCREMENT and no operation modelled here deletes a row).            *)
(* A column value carries its SQLite storage class in field t.             *)
(***************************************************************************)
EXTENDS Integers, Sequences, FiniteSets, TLC

VARIABLES purchase_orders, invoices, validation_reports, ret,
          processed_emails, processed_emails_file, invoice_log,
          instance, calls, writers, loop, notifications

\* the InvoiceMonitor instance and the files it keeps
monitor_vars ==
    <<processed_emails, processed_emails_file, invoice_log, instance, calls>>

vars ==
    <<purchase_orders, invoices, validation_reports, ret, monitor_vars, writers,
      loop, notifications>>

(***************************************************************************)
(* Bounds of the model.                                                    *)
(***************************************************************************)
MaxInvoices == 2
MaxReports == 2
MaxDecisions == 2
MaxInstances == 2
MaxCalls == 2

(***************************************************************************)
(* Column values.                                                          *)
(***************************************************************************)
None == "None"

NullText == [t |-> "NULL", s |-> <<>>]
Text(s) == [t |-> "TEXT", s |-> s]

NullAmount == [t |-> "NULL", c |-> 0]
\* a REAL column holding the double nearest to c/100
Real(c) == [t |-> "REAL", c |-> c]
\* a REAL column keeps a non-numeric string as TEXT (type affinity)
TextAmount == [t |-> "TEXT", c |-> 0]

\* Python truthiness of a fetched column value: None, 0.0 and '' are false
Truthy(v) ==
    CASE v.t = "NULL" -> FALSE
      [] v.t = "REAL" -> v.c # 0
      [] v.t = "TEXT" -> IF "s" \in DOMAIN v THEN v.s # <<>> ELSE TRUE

(***************************************************************************)
(* Strings are sequences of characters.  str.lower() and str.upper() over  *)
(* the ASCII letters.                                                      *)
(***************************************************************************)
UpperLetters ==
    <<"A", "B", "C", "D", "E", "F", "G", "H", "I", "J", "K", "L", "M",
      "N", "O", "P", "Q", "R", "S", "T", "U", "V", "W", "X", "Y", "Z">>
LowerLetters ==
    <<"a", "b", "c", "d", "e", "f", "g", "h", "i", "j", "k", "l", "m",
      "n", "o", "p", "q", "r", "s", "t", "u", "v", "w", "x", "y", "z">>

LowerChar(ch) ==
    IF \E i \in 1..26 : UpperLetters[i] = ch
    THEN LowerLetters[CHOOSE i \in 1..26 : UpperLetters[i] = ch]
    ELSE ch

UpperChar(ch) ==
    IF \E i \in 1..26 : LowerLetters[i] = ch
    THEN UpperLetters[CHOOSE i \in 1..26 : LowerLetters[i] = ch]
    ELSE ch

PyLower(s) == [i \in 1..Len(s) |-> LowerChar(s[i])]

(***************************************************************************)
(* IEEE-754 doubles.  An amount of c cents is stored as the double nearest *)
(* to c/100.  A double is held exactly as the pair (cents, err), its value *)
(* being cents/100 + err * U with U = 2^-59 / 25:                          *)
(*   - c/100 lies in the binade [2^k, 2^(k+1)), j = k + 7 >= 0;            *)
(*   - its 53-bit significand is m = round(c * 2^(57-j) / 25), so with     *)
(*     r = (c * 2^(57-j)) mod 25 the rounding adds -r/25 ulp (r < 12.5)    *)
(*     or (25-r)/25 ulp, one ulp being 2^(j-59) = 25 * 2^j * U.            *)
(* The subtraction of two doubles is exact when both are exact (err = 0)   *)
(* or when they lie within a factor of 2 of each other (Sterbenz); the     *)
(* amounts of the model are chosen so.                                     *)
(***************************************************************************)
RECURSIVE Pow2(_)
Pow2(n) == IF n = 0 THEN 1 ELSE 2 * Pow2(n - 1)

RECURSIVE Pow2Mod25(_)
Pow2Mod25(n) == IF n = 0 THEN 1 ELSE (2 * Pow2Mod25(n - 1)) % 25

\* largest j with 100 * 2^j <= 128 * c, for c >= 1
RECURSIVE BinadeFrom(_, _)
BinadeFrom(c, j) == IF 100 * Pow2(j + 1) <= 128 * c THEN BinadeFrom(c, j + 1) ELSE j

Binade(c) == BinadeFrom(c, 0)

RoundErr(c) ==
    IF c = 0 THEN 0
    ELSE LET j == Binade(c)
             r == ((c % 25) * Pow2Mod25(57 - j)) % 25
         IN  (IF 2 * r < 25 THEN 0 - r ELSE 25 - r) * Pow2(j)

\* float(v) of a stored REAL of c cents (also the value of the literal c/100)
PyFloat(c) == [cents |-> c, err |-> RoundErr(c)]

FloatSub(x, y) == [cents |-> x.cents - y.cents, err |-> x.err - y.err]

FloatNeg(x) == [cents |-> 0 - x.cents, err |-> 0 - x.err]

FloatLess(x, y) == x.cents < y.cents \/ (x.cents = y.cents /\ x.err < y.err)

PyAbs(x) == IF FloatLess(x, PyFloat(0)) THEN FloatNeg(x) ELSE x

\* the literal 0.01 of validate_invoice
Tolerance == PyFloat(1)

\* float(v) raises ValueError on a string that is no number
FloatRaises(v) == v.t = "TEXT"

(***************************************************************************)
(* Inputs.                                                                 *)
(***************************************************************************)
PONumbers == {"PO100"}
InvoiceNumbers == {"INV1", "INV2"}
InvoicePORefs == {"PO100"}
POVendors == {Text(<<"A", "b">>)}
InvoiceVendors == {Text(<<"A", "b">>), Text(<<"C", "d">>)}
POAmounts == {Real(10000), TextAmount}
InvoiceAmounts == {Real(10000)}
Decisions == {"approved", "rejected"}
Comments == {"ok"}
Faults == {"none", "insert"}

PODataSet ==
    [po_number : PONumbers, vendor_name : POVendors, total_amount : POAmounts,
     status : {"active"}]

InvoiceDataSet ==
    [invoice_number : InvoiceNumbers, purchase_order : InvoicePORefs,
     vendor_name : InvoiceVendors, total_amount : InvoiceAmounts]

IntId(n) == [t |-> "int", n |-> n, s |-> ""]
StrId(s) == [t |-> "str", n |-> 0, s |-> s]
Identifiers == {IntId(n) : n \in 1..MaxInvoices} \cup {StrId(s) : s \in InvoiceNumbers}

(***************************************************************************)
(* Return values.                                                          *)
(***************************************************************************)
NoCall == [op |-> "none"]

\* {"status": "error", "message": msg}; invoice_id is the local variable of the
\* run (0: the identifier resolved to no id)
ErrorResult(invoice_id, msg) ==
    [op |-> "validate_invoice", invoice_id |-> invoice_id, status |-> "error",
     message |-> msg]

\* validate_invoice returns None when no invoice has the given id
NoneResult(invoice_id) ==
    [op |-> "validate_invoice", invoice_id |-> invoice_id, status |-> None,
     message |-> None]

(***************************************************************************)
(* Table lookups.                                                          *)
(***************************************************************************)
\* the lookup with AND status = 'active', as validate_purchase_order has it
POIds_ActiveOnly(po_number) ==
    {i \in 1..Len(purchase_orders) :
        /\ po_number # None
        /\ purchase_orders[i].po_number = po_number
        /\ purchase_orders[i].status = "active"}

\* SELECT ... FROM purchase_orders WHERE po_number = ?  (NULL equals nothing)
POIds(po_number) ==
    {i \in 1..Len(purchase_orders) :
        po_number # None /\ purchase_orders[i].po_number = po_number}

\* the id get_invoice_id_by_number fetches (0: no row)
InvoiceIdByNumber(number) ==
    LET ids == {i \in 1..Len(invoices) :
                   number # None /\ invoices[i].invoice_number = number}
    IN  IF ids = {} THEN 0 ELSE CHOOSE i \in ids : \A k \in ids : i <= k

(***************************************************************************)
(* add_purchase_order, add_invoice                                         *)
(***************************************************************************)
\* INSERT OR REPLACE: a second order with a stored po_number takes the place
\* of the stored one
AddPurchaseOrder_Replace(po_data) ==
    /\ purchase_orders' =
           IF POIds(po_data.po_number) # {}
           THEN [i \in 1..Len(purchase_orders) |->
                    IF i \in POIds(po_data.po_number) THEN po_data
                    ELSE purchase_orders[i]]
           ELSE Append(purchase_orders, po_data)
    /\ ret' = [op |-> "add_purchase_order", arg |-> po_data.po_number, ok |-> TRUE]
    /\ UNCHANGED <<invoices, validation_reports, monitor_vars, writers, loop, notifications>>

AddPurchaseOrder(po_data) ==
    /\ IF POIds(po_data.po_number) # {}
       THEN \* sqlite3.IntegrityError: UNIQUE(po_number)
            /\ UNCHANGED purchase_orders
            /\ ret' = [op |-> "add_purchase_order", arg |-> po_data.po_number, ok |-> FALSE]
       ELSE /\ purchase_orders' = Append(purchase_orders, po_data)
            /\ ret' = [op |-> "add_purchase_order", arg |-> po_data.po_number, ok |-> TRUE]
    /\ UNCHANGED <<invoices, validation_reports, monitor_vars, writers, loop, notifications>>

\* the INSERT storing a status of its own instead of 'pending'
NewInvoiceRow_Received(invoice_data) ==
    [invoice_number |-> invoice_data.invoice_number,
     po_number |-> invoice_data.purchase_order,
     vendor_name |-> invoice_data.vendor_name,
     total_amount |-> invoice_data.total_amount,
     status |-> "received",
     validation_result |-> None]

NewInvoiceRow(invoice_data) ==
    [invoice_number |-> invoice_data.invoice_number,
     po_number |-> invoice_data.purchase_order,
     vendor_name |-> invoice_data.vendor_name,
     total_amount |-> invoice_data.total_amount,
     status |-> "pending",
     validation_result |-> None]

\* the rows of table that the UNIQUE(invoice_number) constraint sets against
\* a new row with this number (a NULL number conflicts with nothing)
UniqueConflicts(table, number) ==
    {i \in 1..Len(table) : number # None /\ table[i].invoice_number = number}

\* an invoices table without the UNIQUE constraint: every INSERT adds a row
AddInvoiceOutcome_NoConstraint(table, invoice_data) ==
    [invoices |-> Append(table, NewInvoiceRow(invoice_data)), id |-> Len(table) + 1]

\* the INSERT of add_invoice on the table as the connection sees it: the new
\* table and cursor.lastrowid, or the table as it was and id 0 when
\* sqlite3.IntegrityError is raised (add_invoice then returns None)
AddInvoiceOutcome(table, invoice_data) ==
    IF UniqueConflicts(table, invoice_data.invoice_number) # {}
    THEN [invoices |-> table, id |-> 0]
    ELSE [invoices |-> Append(table, NewInvoiceRow(invoice_data)),
          id |-> Len(table) + 1]

AddInvoice(invoice_data) ==
    /\ Len(invoices) < MaxInvoices
    /\ LET out == AddInvoiceOutcome(invoices, invoice_data) IN
        /\ invoices' = out.invoices
        /\ ret' = [op |-> "add_invoice", arg |-> invoice_data.invoice_number,
                   id |-> out.id]
    /\ UNCHANGED <<purchase_orders, validation_reports, monitor_vars, writers, loop, notifications>>

(***************************************************************************)
(* validate_invoice: the comparison                                        *)
(***************************************************************************)
VendorDiscrepancy(po_vendor, invoice_vendor) ==
    IF /\ Truthy(po_vendor)
       /\ Truthy(invoice_vendor)
       /\ PyLower(po_vendor.s) # PyLower(invoice_vendor.s)
    THEN <<[field |-> "vendor_name", po_value |-> po_vendor,
            invoice_value |-> invoice_vendor]>>
    ELSE <<>>

\* float(po_amount) or float(invoice_amount) raises ValueError
AmountRaises(po_amount, invoice_amount) ==
    /\ Truthy(po_amount)
    /\ Truthy(invoice_amount)
    /\ (FloatRaises(po_amount) \/ FloatRaises(invoice_amount))

AmountDifference(po_amount, invoice_amount) ==
    PyAbs(FloatSub(PyFloat(po_amount.c), PyFloat(invoice_amount.c)))

AmountDiscrepancy(po_amount, invoice_amount) ==
    IF /\ Truthy(po_amount)
       /\ Truthy(invoice_amount)
       /\ FloatLess(Tolerance, AmountDifference(po_amount, invoice_amount))
    THEN <<[field |-> "total_amount", po_value |-> po_amount,
            invoice_value |-> invoice_amount,
            difference |-> AmountDifference(po_amount, invoice_amount)]>>
    ELSE <<>>

CheckDiscrepancies(po, inv) ==
    VendorDiscrepancy(po.vendor_name, inv.vendor_name)
        \o AmountDiscrepancy(po.total_amount, inv.total_amount)

\* the two branches of the classification swapped
ValidationStatus_Swapped(discrepancies) ==
    IF discrepancies # <<>> THEN "validated" ELSE "discrepancies_found"

ValidationStatus(discrepancies) ==
    IF discrepancies # <<>> THEN "discrepancies_found" ELSE "validated"

ValidationResultText(discrepancies) ==
    IF discrepancies # <<>>
    THEN "Discrepancies found between invoice and purchase order"
    ELSE "Invoice matches purchase order"

\* the INSERT leaving approval_status to the column's DEFAULT 'pending'
InitialApprovalStatus_SchemaDefault(discrepancies) == "pending"

InitialApprovalStatus(discrepancies) ==
    IF discrepancies # <<>> THEN "requires_approval" ELSE "auto_approved"

FormatDiscrepancies(discrepancies) ==
    IF discrepancies = <<>> THEN <<"None found">> ELSE discrepancies

\* the f-string of the report, by the values it interpolates
ReportContent(inv, po, discrepancies) ==
    <<[kind |-> "Invoice Validation Report",
       invoice_number |-> inv.invoice_number,
       po_number |-> inv.po_number,
       status |-> ValidationStatus(discrepancies),
       invoice_vendor |-> inv.vendor_name,
       po_vendor |-> po.vendor_name,
       invoice_amount |-> inv.total_amount,
       po_amount |-> po.total_amount,
       discrepancies |-> FormatDiscrepancies(discrepancies)]>>

\* str(discrepancies) if discrepancies else None
DiscrepanciesColumn(discrepancies) ==
    IF discrepancies # <<>>
    THEN [t |-> "TEXT", v |-> discrepancies]
    ELSE [t |-> "NULL", v |-> <<>>]

NewReportRow(invoice_id, inv, po, discrepancies) ==
    [invoice_id |-> invoice_id,
     report_content |-> ReportContent(inv, po, discrepancies),
     discrepancies |-> DiscrepanciesColumn(discrepancies),
     approval_status |-> InitialApprovalStatus(discrepancies)]

(***************************************************************************)
(* validate_invoice: the transaction.  db is the pair of tables the run    *)
(* writes; the statements work on the connection's uncommitted copy.       *)
(***************************************************************************)
Committed == [invoices |-> invoices, validation_reports |-> validation_reports]

\* an UPDATE that sets status and leaves validation_result as it was
TxUpdateInvoice_StatusOnly(db, invoice_id, status, validation_result) ==
    [db EXCEPT !.invoices[invoice_id].status = status]

\* UPDATE invoices SET status = ?, validation_result = ? WHERE id = ?
TxUpdateInvoice(db, invoice_id, status, validation_result) ==
    [db EXCEPT !.invoices[invoice_id].status = status,
               !.invoices[invoice_id].validation_result = validation_result]

\* INSERT OR REPLACE keyed by the invoice: a re-validation overwrites the
\* invoice's earlier report
TxInsertReport_Replace(db, row) ==
    LET olds == {i \in 1..Len(db.validation_reports) :
                    db.validation_reports[i].invoice_id = row.invoice_id}
    IN  IF olds = {}
        THEN [db EXCEPT !.validation_reports = Append(@, row)]
        ELSE [db EXCEPT !.validation_reports =
                 Append([i \in 1..Len(@) |-> IF i \in olds THEN row ELSE @[i]], row)]

\* INSERT INTO validation_reports ...
TxInsertReport(db, row) ==
    [db EXCEPT !.validation_reports = Append(@, row)]

\* a connection in autocommit mode: each statement's write is kept
CloseWithoutCommit_Autocommit(committed, working) == working

\* an exception skips conn.commit(); conn.close() in the finally clause
\* discards what the connection wrote
CloseWithoutCommit(committed, working) == committed

(***************************************************************************)
(* send_validation_report.  fault tells what the environment does to the   *)
(* notification of a run: "no approver" (APPROVER_EMAIL is not set), "no   *)
(* sender" (EMAIL_ADDRESS or EMAIL_PASSWORD is not set), "smtp" (the SMTP  *)
(* session raises); otherwise the message is sent.                         *)
(***************************************************************************)
\* validation_result.get('status').upper()
UpperStatus(status) ==
    CASE status = "discrepancies_found" -> "DISCREPANCIES_FOUND"
      [] status = "validated" -> "VALIDATED"
      [] OTHER -> "ERROR"

\* one call of send_validation_report: the message it builds and what it
\* returns
SendValidationReport(validation_result, fault) ==
    [report_id |-> validation_result.report_id,
     subject |-> <<"Invoice Validation Report - ",
                   UpperStatus(validation_result.status)>>,
     body |-> validation_result.report_content,
     sent |-> fault \notin {"no sender", "smtp"}]

\* a run that reports every result to the approver
Notify_EveryRun(validation_result, fault) ==
    IF fault # "no approver"
    THEN <<SendValidationReport(validation_result, fault)>>
    ELSE <<>>

\* if discrepancies and self.approver_email: self.send_validation_report(...)
Notify(validation_result, fault) ==
    IF validation_result.discrepancies # <<>> /\ fault # "no approver"
    THEN <<SendValidationReport(validation_result, fault)>>
    ELSE <<>>

\* a run in which a notification that was not sent raises to the except
\* clause of validate_invoice
NotifiedOutcome_FailureRaises(db, validation_result, calls_made) ==
    IF \E i \in 1..Len(calls_made) : ~calls_made[i].sent
    THEN [db |-> db, ret |-> ErrorResult(validation_result.invoice_id, "SMTPException"),
          notify |-> calls_made]
    ELSE [db |-> db, ret |-> validation_result, notify |-> calls_made]

\* what the run has committed and returns once the notification, if any,
\* has returned: send_validation_report's value is not looked at
NotifiedOutcome(db, validation_result, calls_made) ==
    [db |-> db, ret |-> validation_result, notify |-> calls_made]

ResolveIdentifier(ident) ==
    IF ident.t = "str" THEN InvoiceIdByNumber(ident.s) ELSE ident.n

ComparisonRun(invoice_id, inv, po, fault) ==
    IF AmountRaises(po.total_amount, inv.total_amount)
    THEN [db |-> CloseWithoutCommit(Committed, Committed),
          ret |-> ErrorResult(invoice_id, "ValueError"), notify |-> <<>>]
    ELSE LET discrepancies == CheckDiscrepancies(po, inv)
             status == ValidationStatus(discrepancies)
             tx1 == TxUpdateInvoice(Committed, invoice_id, status,
                                    ValidationResultText(discrepancies))
             tx2 == TxInsertReport(tx1, NewReportRow(invoice_id, inv, po, discrepancies))
             validation_result ==
                 [op |-> "validate_invoice", invoice_id |-> invoice_id,
                  status |-> status, message |-> None,
                  report_id |-> Len(tx2.validation_reports),
                  discrepancies |-> discrepancies,
                  report_content |-> ReportContent(inv, po, discrepancies)]
         IN  IF fault = "insert"
             THEN [db |-> CloseWithoutCommit(Committed, tx1),
                   ret |-> ErrorResult(invoice_id, "sqlite3.Error"), notify |-> <<>>]
             ELSE NotifiedOutcome(tx2, validation_result,
                                  Notify(validation_result, fault))

ValidateOutcome(ident, fault) ==
    LET invoice_id == ResolveIdentifier(ident) IN
    IF ident.t = "str" /\ invoice_id = 0
    THEN [db |-> Committed, ret |-> ErrorResult(invoice_id, "Invoice not found"),
          notify |-> <<>>]
    ELSE IF invoice_id \notin 1..Len(invoices)
    THEN [db |-> Committed, ret |-> NoneResult(invoice_id), notify |-> <<>>]
    ELSE LET inv == invoices[invoice_id]
             pos == POIds(inv.po_number)
         IN  IF pos = {}
             THEN [db |-> TxUpdateInvoice(Committed, invoice_id, "error",
                                          "Purchase order not found"),
                   ret |-> ErrorResult(invoice_id, "Purchase order not found"),
                   notify |-> <<>>]
             ELSE ComparisonRun(invoice_id, inv,
                                purchase_orders[CHOOSE i \in pos : TRUE], fault)

ValidateInvoice(ident, fault) ==
    /\ Len(validation_reports) < MaxReports
    /\ LET out == ValidateOutcome(ident, fault) IN
        /\ invoices' = out.db.invoices
        /\ validation_reports' = out.db.validation_reports
        /\ ret' = out.ret
        /\ notifications' = notifications \o out.notify
    /\ UNCHANGED <<purchase_orders, monitor_vars, writers, loop>>

(***************************************************************************)
(* update_approval_status                                                  *)
(***************************************************************************)
CommentLine(comments) ==
    IF comments # None
    THEN [kind |-> "Approver Comments:", text |-> comments]
    ELSE [kind |-> "Approved without comments", text |-> None]

\* a rejection sending the invoice back to pending
DecidedInvoiceStatus_Reopen(approval_status) ==
    IF approval_status = "approved" THEN "approved" ELSE "pending"

DecidedInvoiceStatus(approval_status) ==
    IF approval_status = "approved" THEN "approved" ELSE "rejected"

RECURSIVE CommentCount(_)
CommentCount(reports) ==
    IF reports = <<>> THEN 0
    ELSE Len(Head(reports).report_content) - 1 + CommentCount(Tail(reports))

\* an UPDATE that decides only a report no decision was made on yet
\* (... WHERE id = ? AND approval_status IN the creation values)
TxUpdateReport_Undecided(db, report_id, approval_status, comments) ==
    IF /\ report_id \in 1..Len(db.validation_reports)
       /\ db.validation_reports[report_id].approval_status
              \in {"requires_approval", "auto_approved"}
    THEN [db EXCEPT !.validation_reports[report_id].approval_status = approval_status,
                    !.validation_reports[report_id].report_content =
                        Append(@, CommentLine(comments))]
    ELSE db

\* UPDATE validation_reports SET approval_status = ?,
\*     report_content = report_content || ? WHERE id = ?
TxUpdateReport(db, report_id, approval_status, comments) ==
    IF report_id \in 1..Len(db.validation_reports)
    THEN [db EXCEPT !.validation_reports[report_id].approval_status = approval_status,
                    !.validation_reports[report_id].report_content =
                        Append(@, CommentLine(comments))]
    ELSE db

\* the SELECT without its WHERE clause: the first report's invoice is fetched
FetchInvoiceId_AnyReport(db, report_id) ==
    IF db.validation_reports # <<>> THEN db.validation_reports[1].invoice_id ELSE 0

\* SELECT invoice_id FROM validation_reports WHERE id = ?, then
\* fetchone()[0] (0: fetchone() is None and the subscript raises TypeError)
FetchInvoiceId(db, report_id) ==
    IF report_id \in 1..Len(db.validation_reports)
    THEN db.validation_reports[report_id].invoice_id
    ELSE 0

\* the UPDATE without its WHERE clause: every invoice takes the status
TxUpdateStatus_EveryInvoice(db, invoice_id, status) ==
    [db EXCEPT !.invoices = [i \in 1..Len(@) |-> [@[i] EXCEPT !.status = status]]]

\* UPDATE invoices SET status = ? WHERE id = ?
TxUpdateStatus(db, invoice_id, status) ==
    IF invoice_id \in 1..Len(db.invoices)
    THEN [db EXCEPT !.invoices[invoice_id].status = status]
    ELSE db

\* update_approval_status with a guard: only a report that awaits a decision
\* is decided, and only with 'approved' or 'rejected'; anything else fails
UpdateOutcome_Guarded(report_id, approval_status, comments) ==
    LET tx1 == TxUpdateReport(Committed, report_id, approval_status, comments)
        invoice_id == FetchInvoiceId(tx1, report_id)
    IN  IF \/ invoice_id = 0
           \/ approval_status \notin {"approved", "rejected"}
           \/ validation_reports[report_id].approval_status # "requires_approval"
        THEN [db |-> CloseWithoutCommit(Committed, tx1), ok |-> FALSE]
        ELSE [db |-> TxUpdateStatus(tx1, invoice_id,
                                    DecidedInvoiceStatus(approval_status)),
              ok |-> TRUE]

UpdateOutcome(report_id, approval_status, comments) ==
    LET tx1 == TxUpdateReport(Committed, report_id, approval_status, comments)
        invoice_id == FetchInvoiceId(tx1, report_id)
    IN  IF invoice_id = 0
        THEN \* TypeError, caught: nothing is committed
             [db |-> CloseWithoutCommit(Committed, tx1), ok |-> FALSE]
        ELSE [db |-> TxUpdateStatus(tx1, invoice_id,
                                    DecidedInvoiceStatus(approval_status)),
              ok |-> TRUE]

UpdateApprovalStatus(report_id, approval_status, comments) ==
    /\ (report_id \in 1..Len(validation_reports))
           => CommentCount(validation_reports) < MaxDecisions
    /\ LET out == UpdateOutcome(report_id, approval_status, comments) IN
        /\ invoices' = out.db.invoices
        /\ validation_reports' = out.db.validation_reports
        /\ ret' = [op |-> "update_approval_status", arg |-> report_id, ok |-> out.ok]
    /\ UNCHANGED <<purchase_orders, monitor_vars, writers, loop, notifications>>

(***************************************************************************)
(* get_pending_approvals                                                   *)
(***************************************************************************)
\* every report listed, whatever its approval_status
PendingReportIds_EveryReport(db) ==
    {r \in 1..Len(db.validation_reports) :
        db.validation_reports[r].invoice_id \in 1..Len(db.invoices)}

\* FROM validation_reports vr JOIN invoices i ON vr.invoice_id = i.id
\* WHERE vr.approval_status = 'requires_approval'
PendingReportIds(db) ==
    {r \in 1..Len(db.validation_reports) :
        /\ db.validation_reports[r].invoice_id \in 1..Len(db.invoices)
        /\ db.validation_reports[r].approval_status = "requires_approval"}

\* dict(zip(column_names, row)) of the report with id r (file_path and
\* created_at are not held by the model)
PendingRow(db, r) ==
    LET inv == db.invoices[db.validation_reports[r].invoice_id] IN
    [report_id |-> r, invoice_number |-> inv.invoice_number,
     po_number |-> inv.po_number, vendor_name |-> inv.vendor_name,
     total_amount |-> inv.total_amount]

\* ORDER BY vr.created_at DESC: created_at has a resolution of one second
\* and the order of rows of the same second is not defined, so every order
\* of the rows is a possible result
PendingOrders(ids) ==
    {order \in [1..Cardinality(ids) -> ids] :
        \A j, k \in 1..Cardinality(ids) : j # k => order[j] # order[k]}

GetPendingApprovals ==
    /\ \E order \in PendingOrders(PendingReportIds(Committed)) :
          ret' = [op |-> "get_pending_approvals",
                  value |-> [k \in 1..Len(order) |-> PendingRow(Committed, order[k])]]
    /\ UNCHANGED <<purchase_orders, invoices, validation_reports, monitor_vars,
                   writers, loop, notifications>>

(***************************************************************************)
(* The store, from an empty database file.                                 *)
(***************************************************************************)
\* the connections of the two-writer scenario, none opened
Writers == {1, 2}
NoWriters == [w \in Writers |-> [pc |-> "idle", lock |-> "none"]]

\* monitor_mailbox has not been called
NoLoop == [pc |-> "idle"]

ReportIds == 1..MaxReports

\* one InvoiceMonitor, constructed where no processed_emails.json and no
\* invoice_log.csv exist yet, and no call of it made
NoFile == [json |-> "no file"]

InitMonitorIdle ==
    /\ processed_emails = {}
    /\ processed_emails_file = NoFile
    /\ invoice_log = <<>>
    /\ instance = 1
    /\ calls = 0

Init ==
    /\ purchase_orders = <<>>
    /\ invoices = <<>>
    /\ validation_reports = <<>>
    /\ ret = NoCall
    /\ InitMonitorIdle
    /\ writers = NoWriters
    /\ loop = NoLoop
    /\ notifications = <<>>

Next ==
    \/ \E po_data \in PODataSet : AddPurchaseOrder(po_data)
    \/ \E invoice_data \in InvoiceDataSet : AddInvoice(invoice_data)
    \/ \E ident \in Identifiers, fault \in Faults : ValidateInvoice(ident, fault)
    \/ \E report_id \in ReportIds, approval_status \in Decisions, comments \in Comments :
           UpdateApprovalStatus(report_id, approval_status, comments)

Spec == Init /\ [][Next]_vars

(***************************************************************************)
(* Reconciliation of one stored invoice against one stored purchase order: *)
(* the store as add_purchase_order(po_data) and add_invoice(invoice_data)  *)
(* leave it, the two drawn from wider sets of vendor names and amounts.    *)
(***************************************************************************)
ReconcilePOVendors == {NullText, Text(<<"A", "b">>)}
ReconcileInvoiceVendors ==
    {NullText, Text(<<"A", "b">>), Text(<<"a", "b">>), Text(<<"A", "b", " ">>),
     Text(<<"C", "d">>)}
ReconcilePOAmounts == {NullAmount, Real(0), Real(10000)}
ReconcileInvoiceAmounts ==
    {NullAmount, Real(0), Real(5000), Real(10000), Real(10001), Real(10002)}
ReconcileComments == {None, "ok"}

ReconcilePODataSet ==
    [po_number : PONumbers, vendor_name : ReconcilePOVendors,
     total_amount : ReconcilePOAmounts, status : {"active"}]

ReconcileInvoiceDataSet ==
    [invoice_number : {"INV1"}, purchase_order : {"PO100", None},
     vendor_name : ReconcileInvoiceVendors, total_amount : ReconcileInvoiceAmounts]

InitReconcile ==
    \E po_data \in ReconcilePODataSet, invoice_data \in ReconcileInvoiceDataSet :
        /\ purchase_orders = <<po_data>>
        /\ invoices = <<NewInvoiceRow(invoice_data)>>
        /\ validation_reports = <<>>
        /\ ret = [op |-> "add_invoice", arg |-> invoice_data.invoice_number, id |-> 1]
        /\ InitMonitorIdle
        /\ writers = NoWriters
        /\ loop = NoLoop
        /\ notifications = <<>>

NextReconcile ==
    \/ \E ident \in Identifiers, fault \in Faults : ValidateInvoice(ident, fault)
    \/ \E report_id \in ReportIds, approval_status \in Decisions,
          comments \in ReconcileComments :
           UpdateApprovalStatus(report_id, approval_status, comments)

SpecReconcile == InitReconcile /\ [][NextReconcile]_vars

(***************************************************************************)
(* Approval decisions on a store that holds one purchase order and two     *)
(* pending invoices for it, as add_purchase_order and two add_invoice      *)
(* calls leave it: one invoice matches the order, the other one names      *)
(* another vendor.  The decisions come with or without comments.           *)
(***************************************************************************)
InitApproval ==
    \E po_data \in [po_number : PONumbers, vendor_name : POVendors,
                     total_amount : {Real(10000)}, status : {"active"}],
       first \in [invoice_number : {"INV1"}, purchase_order : InvoicePORefs,
                  vendor_name : POVendors, total_amount : InvoiceAmounts],
       second \in [invoice_number : {"INV2"}, purchase_order : InvoicePORefs,
                   vendor_name : InvoiceVendors \ POVendors,
                   total_amount : InvoiceAmounts] :
        /\ purchase_orders = <<po_data>>
        /\ invoices = <<NewInvoiceRow(first), NewInvoiceRow(second)>>
        /\ validation_reports = <<>>
        /\ ret = [op |-> "add_invoice", arg |-> second.invoice_number, id |-> 2]
        /\ InitMonitorIdle
        /\ writers = NoWriters
        /\ loop = NoLoop
        /\ notifications = <<>>

\* the words an approver types after the report id: none, or one word
CommandComments == {<<>>, <<"ok">>}

\* " ".join(comments) if comments else default (one word joins to itself)
CommentsText(comments, default) ==
    IF comments # <<>> THEN Head(comments) ELSE default

\* approver_interface.py: approve <report_id> [comments]
ApproveInvoice(report_id, comments) ==
    UpdateApprovalStatus(report_id, "approved",
                         CommentsText(comments, "Approved without comments"))

\* approver_interface.py: reject <report_id> [comments]
RejectInvoice(report_id, comments) ==
    UpdateApprovalStatus(report_id, "rejected",
                         CommentsText(comments, "Rejected without comments"))

\* the comments update_approval_status is given in this scenario: the texts
\* of the two commands, or none (a caller that omits them)
ApprovalComments ==
    {None} \cup {CommentsText(comments, default) :
                    comments \in CommandComments,
                    default \in {"Approved without comments",
                                 "Rejected without comments"}}

NextApproval ==
    \/ \E ident \in Identifiers : ValidateInvoice(ident, "none")
    \/ \E report_id \in ReportIds, comments \in CommandComments :
           ApproveInvoice(report_id, comments)
    \/ \E report_id \in ReportIds, comments \in CommandComments :
           RejectInvoice(report_id, comments)
    \/ \E report_id \in ReportIds, approval_status \in Decisions :
           UpdateApprovalStatus(report_id, approval_status, None)

SpecApproval == InitApproval /\ [][NextApproval]_vars

\* the values a caller of update_approval_status passes as approval_status:
\* the two decisions, a creation value and a word the schema does not know
DecisionValues == Decisions \cup {"requires_approval", "on_hold"}

\* callers of update_approval_status other than the approver's commands:
\* any report id, any value, comments given or omitted
NextDecide ==
    \/ \E ident \in Identifiers : ValidateInvoice(ident, "none")
    \/ \E report_id \in ReportIds, approval_status \in DecisionValues,
          comments \in ReconcileComments :
           UpdateApprovalStatus(report_id, approval_status, comments)

SpecDecide == InitApproval /\ [][NextDecide]_vars

\* the approver's session: validations, the approve and reject commands and
\* the listing of the pending approvals
NextPending ==
    \/ \E ident \in Identifiers : ValidateInvoice(ident, "none")
    \/ \E report_id \in ReportIds, comments \in CommandComments :
           ApproveInvoice(report_id, comments)
    \/ \E report_id \in ReportIds, comments \in CommandComments :
           RejectInvoice(report_id, comments)
    \/ GetPendingApprovals

SpecPending == InitApproval /\ [][NextPending]_vars

(***************************************************************************)
(* Reconciliation runs and their notifications, on a store that holds one  *)
(* purchase order and one invoice for it; a second invoice, for this order *)
(* or for one the store does not hold, is added by add_invoice.            *)
(***************************************************************************)
NotifyFaults == {"none", "insert", "no approver", "no sender", "smtp"}

NotifyInvoiceDataSet ==
    [invoice_number : {"INV2"}, purchase_order : {"PO100", "PO200"},
     vendor_name : InvoiceVendors, total_amount : InvoiceAmounts]

InitNotify ==
    \E po_data \in [po_number : PONumbers, vendor_name : POVendors,
                     total_amount : {Real(10000)}, status : {"active"}],
       invoice_data \in [invoice_number : {"INV1"}, purchase_order : InvoicePORefs,
                         vendor_name : InvoiceVendors, total_amount : InvoiceAmounts] :
        /\ purchase_orders = <<po_data>>
        /\ invoices = <<NewInvoiceRow(invoice_data)>>
        /\ validation_reports = <<>>
        /\ ret = [op |-> "add_invoice", arg |-> invoice_data.invoice_number, id |-> 1]
        /\ InitMonitorIdle
        /\ writers = NoWriters
        /\ loop = NoLoop
        /\ notifications = <<>>

NextNotify ==
    \/ \E invoice_data \in NotifyInvoiceDataSet : AddInvoice(invoice_data)
    \/ \E ident \in Identifiers, fault \in NotifyFaults : ValidateInvoice(ident, fault)

SpecNotify == InitNotify /\ [][NextNotify]_vars

(***************************************************************************)
(* Python's re.search on a string.  A pattern is a tree of the nodes       *)
(* below; Match gives, in the order a backtracking matcher tries them,     *)
(* every way the pattern matches text from position i: the position e      *)
(* after the match and the span g of capturing group 1 (none of the        *)
(* program's patterns has a second group).  ic is re.IGNORECASE.           *)
(***************************************************************************)
Digits == {"0", "1", "2", "3", "4", "5", "6", "7", "8", "9"}
Letters == {UpperLetters[i] : i \in 1..26} \cup {LowerLetters[i] : i \in 1..26}
\* \w, \s, \d over ASCII
WordChars == Letters \cup Digits \cup {"_"}
SpaceChars == {" ", "\n", "\t"}

Chr(set) == [op |-> "chr", set |-> set]
\* [^...]
NotChr(set) == [op |-> "notchr", set |-> set]
SeqOf(parts) == [op |-> "seq", parts |-> parts]
Alt(parts) == [op |-> "alt", parts |-> parts]
Star(r) == [op |-> "star", r |-> r]
LazyStar(r) == [op |-> "lazystar", r |-> r]
Group(r) == [op |-> "group", r |-> r]
WordBoundary == [op |-> "b"]
Empty == SeqOf(<<>>)
\* r+, r+?, r?
Plus(r) == SeqOf(<<r, Star(r)>>)
LazyPlus(r) == SeqOf(<<r, LazyStar(r)>>)
Opt(r) == Alt(<<r, Empty>>)
\* the characters of a literal, one after the other
Lit(chars) == SeqOf([i \in 1..Len(chars) |-> Chr({chars[i]})])
\* r{m,n}
RECURSIVE AtMost(_, _)
AtMost(r, n) == IF n = 0 THEN Empty ELSE Opt(SeqOf(<<r, AtMost(r, n - 1)>>))
Rep(r, m, n) == SeqOf([i \in 1..m |-> r] \o <<AtMost(r, n - m)>>)

NoGroup == [from |-> 0, to |-> 0]

IsWordCharAt(text, i) == i \in 1..Len(text) /\ text[i] \in WordChars

RECURSIVE Match(_, _, _, _, _)
RECURSIVE Then(_, _, _, _)
\* every match of k after each of the matches ms
Then(ms, k, text, ic) ==
    IF ms = <<>> THEN <<>>
    ELSE Match(k, text, Head(ms).e, Head(ms).g, ic) \o Then(Tail(ms), k, text, ic)

Match(r, text, i, g, ic) ==
    CASE r.op = "chr" ->
            IF /\ i <= Len(text)
               /\ \/ text[i] \in r.set
                  \/ ic /\ LowerChar(text[i]) \in {LowerChar(c) : c \in r.set}
            THEN <<[e |-> i + 1, g |-> g]>>
            ELSE <<>>
      [] r.op = "notchr" ->
            IF i <= Len(text) /\ text[i] \notin r.set
            THEN <<[e |-> i + 1, g |-> g]>>
            ELSE <<>>
      [] r.op = "seq" ->
            IF r.parts = <<>>
            THEN <<[e |-> i, g |-> g]>>
            ELSE Then(Match(Head(r.parts), text, i, g, ic), SeqOf(Tail(r.parts)),
                      text, ic)
      [] r.op = "alt" ->
            IF r.parts = <<>>
            THEN <<>>
            ELSE Match(Head(r.parts), text, i, g, ic)
                    \o Match(Alt(Tail(r.parts)), text, i, g, ic)
      [] r.op = "star" ->
            Then(SelectSeq(Match(r.r, text, i, g, ic), LAMBDA m : m.e > i), r, text, ic)
                \o <<[e |-> i, g |-> g]>>
      [] r.op = "lazystar" ->
            <<[e |-> i, g |-> g]>>
                \o Then(SelectSeq(Match(r.r, text, i, g, ic), LAMBDA m : m.e > i),
                        r, text, ic)
      [] r.op = "group" ->
            LET ms == Match(r.r, text, i, g, ic)
            IN  [j \in 1..Len(ms) |-> [e |-> ms[j].e, g |-> [from |-> i, to |-> ms[j].e]]]
      [] r.op = "b" ->
            IF IsWordCharAt(text, i - 1) # IsWordCharAt(text, i)
            THEN <<[e |-> i, g |-> g]>>
            ELSE <<>>

NoMatch == [found |-> FALSE, from |-> 0, e |-> 0, g |-> NoGroup]

\* the leftmost position from i on at which the pattern matches, with the
\* first match there
RECURSIVE SearchFrom(_, _, _, _)
SearchFrom(r, text, i, ic) ==
    IF i > Len(text) + 1 THEN NoMatch
    ELSE LET ms == Match(r, text, i, NoGroup, ic) IN
         IF ms # <<>>
         THEN [found |-> TRUE, from |-> i, e |-> ms[1].e, g |-> ms[1].g]
         ELSE SearchFrom(r, text, i + 1, ic)

\* re.search(pattern, text) and re.search(pattern, text, re.IGNORECASE)
Search(r, text) == SearchFrom(r, text, 1, FALSE)
SearchIgnoreCase(r, text) == SearchFrom(r, text, 1, TRUE)

\* match.group(0), match.group(1)
Group0(m, text) == SubSeq(text, m.from, m.e - 1)
Group1(m, text) == SubSeq(text, m.g.from, m.g.to - 1)

\* needle in haystack
Occurs(needle, haystack) ==
    \E i \in 1..(Len(haystack) - Len(needle) + 1) :
        SubSeq(haystack, i, i + Len(needle) - 1) = needle

(***************************************************************************)
(* email_monitor.py: the detector.  A text is held by what the detector    *)
(* looks at: the vocabulary terms that occur in text.lower(), and whether  *)
(* the two patterns of the third rule match it.                            *)
(***************************************************************************)
invoice_keywords ==
    {"invoice", "bill", "receipt", "statement", "total amount", "due date",
     "tax invoice", "payment due", "charges", "order number", "balance due",
     "purchase order", "VAT", "GST", "invoice number", "invoice date",
     "billing date", "payment terms", "subtotal", "total due", "amount due",
     "invoice total", "account number", "customer id"}

\* sum(1 for keyword in invoice_keywords if keyword in text_lower)
keyword_matches(text) == Cardinality(text.terms \cap invoice_keywords)

\* a detector that accepts on the pair of patterns only when a second
\* keyword is in the text
IsPotentialInvoice_PatternsNeedKeywords(text) ==
    \/ keyword_matches(text) >= 3
    \/ /\ keyword_matches(text) >= 2
       /\ \/ text.terms \cap {"invoice number", "purchase order", "total amount"} # {}
          \/ text.invoice_hash /\ text.total_digits

IsPotentialInvoice(text) ==
    \/ keyword_matches(text) >= 3
    \/ /\ keyword_matches(text) >= 2
       /\ text.terms \cap {"invoice number", "purchase order", "total amount"} # {}
    \/ /\ text.invoice_hash
       /\ text.total_digits

\* the characters of a term of the vocabulary
KeywordChars(keyword) ==
    CASE keyword = "invoice" -> <<"i", "n", "v", "o", "i", "c", "e">>
      [] keyword = "bill" -> <<"b", "i", "l", "l">>
      [] keyword = "receipt" -> <<"r", "e", "c", "e", "i", "p", "t">>
      [] keyword = "statement" -> <<"s", "t", "a", "t", "e", "m", "e", "n", "t">>
      [] keyword = "total amount" -> <<"t", "o", "t", "a", "l", " ", "a", "m", "o", "u", "n", "t">>
      [] keyword = "due date" -> <<"d", "u", "e", " ", "d", "a", "t", "e">>
      [] keyword = "tax invoice" -> <<"t", "a", "x", " ", "i", "n", "v", "o", "i", "c", "e">>
      [] keyword = "payment due" -> <<"p", "a", "y", "m", "e", "n", "t", " ", "d", "u", "e">>
      [] keyword = "charges" -> <<"c", "h", "a", "r", "g", "e", "s">>
      [] keyword = "order number" -> <<"o", "r", "d", "e", "r", " ", "n", "u", "m", "b", "e", "r">>
      [] keyword = "balance due" -> <<"b", "a", "l", "a", "n", "c", "e", " ", "d", "u", "e">>
      [] keyword = "purchase order" -> <<"p", "u", "r", "c", "h", "a", "s", "e", " ", "o", "r", "d", "e", "r">>
      [] keyword = "VAT" -> <<"V", "A", "T">>
      [] keyword = "GST" -> <<"G", "S", "T">>
      [] keyword = "invoice number" -> <<"i", "n", "v", "o", "i", "c", "e", " ", "n", "u", "m", "b", "e", "r">>
      [] keyword = "invoice date" -> <<"i", "n", "v", "o", "i", "c", "e", " ", "d", "a", "t", "e">>
      [] keyword = "billing date" -> <<"b", "i", "l", "l", "i", "n", "g", " ", "d", "a", "t", "e">>
      [] keyword = "payment terms" -> <<"p", "a", "y", "m", "e", "n", "t", " ", "t", "e", "r", "m", "s">>
      [] keyword = "subtotal" -> <<"s", "u", "b", "t", "o", "t", "a", "l">>
      [] keyword = "total due" -> <<"t", "o", "t", "a", "l", " ", "d", "u", "e">>
      [] keyword = "amount due" -> <<"a", "m", "o", "u", "n", "t", " ", "d", "u", "e">>
      [] keyword = "invoice total" -> <<"i", "n", "v", "o", "i", "c", "e", " ", "t", "o", "t", "a", "l">>
      [] keyword = "account number" -> <<"a", "c", "c", "o", "u", "n", "t", " ", "n", "u", "m", "b", "e", "r">>
      [] keyword = "customer id" -> <<"c", "u", "s", "t", "o", "m", "e", "r", " ", "i", "d">>

\* r'invoice\s*#\s*\w+'
InvoiceHashPattern ==
    SeqOf(<<Lit(<<"i", "n", "v", "o", "i", "c", "e">>), Star(Chr(SpaceChars)), Chr({"#"}),
            Star(Chr(SpaceChars)), Plus(Chr(WordChars))>>)

\* r'total\s*[:$]?\s*\d+'
TotalDigitsPattern ==
    SeqOf(<<Lit(<<"t", "o", "t", "a", "l">>), Star(Chr(SpaceChars)), Opt(Chr({":", "$"})),
            Star(Chr(SpaceChars)), Plus(Chr(Digits))>>)

\* what the detector looks at in a string: text_lower = text.lower(), the
\* keywords that are in text_lower, the two re.search calls on text_lower
Scan(text) ==
    LET text_lower == PyLower(text) IN
    [terms |-> {keyword \in invoice_keywords : Occurs(KeywordChars(keyword), text_lower)},
     invoice_hash |-> Search(InvoiceHashPattern, text_lower).found,
     total_digits |-> Search(TotalDigitsPattern, text_lower).found]

\* is_potential_invoice(text) on a string
is_potential_invoice(text) == IsPotentialInvoice(Scan(text))

(***************************************************************************)
(* The detector on strings: every text made of at most MaxPieces of the    *)
(* pieces below.                                                           *)
(***************************************************************************)
MaxPieces == 3

DetectorPieces ==
    {<<"I", "n", "v", "o", "i", "c", "e", " ", "#", "1", "2">>,
     <<" ", "T", "o", "t", "a", "l", ":", " ", "5", "0">>,
     <<"i", "n", "v", "o", "i", "c", "e", " ", "n", "u", "m", "b", "e", "r">>,
     <<" ", "r", "e", "c", "e", "i", "p", "t">>,
     <<" ", "b", "i", "l", "l">>,
     <<"V", "A", "T">>,
     <<" ">>}

RECURSIVE Concat(_)
Concat(pieces) ==
    IF pieces = <<>> THEN <<>> ELSE Head(pieces) \o Concat(Tail(pieces))

TextsOf(pieces, n) == {Concat(list) : list \in UNION {[1..k -> pieces] : k \in 0..n}}

DetectorTexts == TextsOf(DetectorPieces, MaxPieces)

\* the call that Init has given its argument returns
IsPotentialInvoiceCall ==
    /\ ret.op = "call is_potential_invoice"
    /\ ret' = [op |-> "is_potential_invoice", arg |-> ret.arg,
               value |-> is_potential_invoice(ret.arg)]
    /\ UNCHANGED <<purchase_orders, invoices, validation_reports, monitor_vars,
                   writers, loop, notifications>>

InitDetector ==
    /\ purchase_orders = <<>>
    /\ invoices = <<>>
    /\ validation_reports = <<>>
    /\ \E text \in DetectorTexts : ret = [op |-> "call is_potential_invoice", arg |-> text]
    /\ InitMonitorIdle
    /\ writers = NoWriters
    /\ loop = NoLoop
    /\ notifications = <<>>

NextDetector == IsPotentialInvoiceCall

SpecDetector == InitDetector /\ [][NextDetector]_vars

(***************************************************************************)
(* email_monitor.py: extract_invoice_details_from_text.  The patterns, as  *)
(* the source writes them, and the conversions of what they capture.       *)
(***************************************************************************)
Spaces == Star(Chr(SpaceChars))
Digit == Chr(Digits)
WordChar == Chr(WordChars)
\* [.:\s]*
Separators == Star(Chr({".", ":"} \cup SpaceChars))
\* [$€£]?
CurrencySign == Opt(Chr({"$", "€", "£"}))
\* (\w+[-\w]*)
NumberCapture == Group(SeqOf(<<Plus(WordChar), Star(Chr({"-"} \cup WordChars))>>))
\* (\d+(?:,\d{3})*(?:\.\d{2})?)
AmountCapture ==
    Group(SeqOf(<<Plus(Digit), Star(SeqOf(<<Chr({","}), Rep(Digit, 3, 3)>>)),
                  Opt(SeqOf(<<Chr({"."}), Rep(Digit, 2, 2)>>))>>))
\* (\d{1,2}[-/]\d{1,2}[-/]\d{2,4}|\w+\s+\d{1,2},?\s+\d{4})
DateCapture ==
    Group(Alt(<<SeqOf(<<Rep(Digit, 1, 2), Chr({"-", "/"}), Rep(Digit, 1, 2),
                        Chr({"-", "/"}), Rep(Digit, 2, 4)>>),
                SeqOf(<<Plus(WordChar), Plus(Chr(SpaceChars)), Rep(Digit, 1, 2),
                        Opt(Chr({","})), Plus(Chr(SpaceChars)), Rep(Digit, 4, 4)>>)>>))

\* r'invoice\s*#\s*(\w+)'
InvoiceNumberPattern ==
    SeqOf(<<Lit(<<"i", "n", "v", "o", "i", "c", "e">>), Spaces, Chr({"#"}), Spaces, Group(Plus(WordChar))>>)
\* r'invoice\s*(?:no|number|num)[.:\s]*(\w+[-\w]*)'
AltInvoiceNumberPattern ==
    SeqOf(<<Lit(<<"i", "n", "v", "o", "i", "c", "e">>), Spaces, Alt(<<Lit(<<"n", "o">>), Lit(<<"n", "u", "m", "b", "e", "r">>), Lit(<<"n", "u", "m">>)>>), Separators,
            NumberCapture>>)
\* r'purchase\s*order\s*#\s*(\w+)'
PurchaseOrderPattern ==
    SeqOf(<<Lit(<<"p", "u", "r", "c", "h", "a", "s", "e">>), Spaces, Lit(<<"o", "r", "d", "e", "r">>), Spaces, Chr({"#"}), Spaces,
            Group(Plus(WordChar))>>)
\* r'(?:po|p\.o\.|purchase\s*order)[.:\s#]*(\w+[-\w]*)'
AltPurchaseOrderPattern ==
    SeqOf(<<Alt(<<Lit(<<"p", "o">>), Lit(<<"p", ".", "o", ".">>), SeqOf(<<Lit(<<"p", "u", "r", "c", "h", "a", "s", "e">>), Spaces, Lit(<<"o", "r", "d", "e", "r">>)>>)>>),
            Star(Chr({".", ":", "#"} \cup SpaceChars)), NumberCapture>>)
\* r'total\s*amount\s*[:$]?\s*(\d+(?:,\d{3})*(?:\.\d{2})?)'
TotalAmountPattern ==
    SeqOf(<<Lit(<<"t", "o", "t", "a", "l">>), Spaces, Lit(<<"a", "m", "o", "u", "n", "t">>), Spaces, Opt(Chr({":", "$"})), Spaces,
            AmountCapture>>)
\* r'(?:total|amount\s*due|balance\s*due|grand\s*total)[.:\s]*[$€£]?\s*(...)'
AltTotalAmountPattern ==
    SeqOf(<<Alt(<<Lit(<<"t", "o", "t", "a", "l">>), SeqOf(<<Lit(<<"a", "m", "o", "u", "n", "t">>), Spaces, Lit(<<"d", "u", "e">>)>>),
                  SeqOf(<<Lit(<<"b", "a", "l", "a", "n", "c", "e">>), Spaces, Lit(<<"d", "u", "e">>)>>),
                  SeqOf(<<Lit(<<"g", "r", "a", "n", "d">>), Spaces, Lit(<<"t", "o", "t", "a", "l">>)>>)>>),
            Separators, CurrencySign, Spaces, AmountCapture>>)
\* r'\b\d{1,2}/\d{1,2}/\d{4}\b'
InvoiceDatePattern ==
    SeqOf(<<WordBoundary, Rep(Digit, 1, 2), Chr({"/"}), Rep(Digit, 1, 2), Chr({"/"}),
            Rep(Digit, 4, 4), WordBoundary>>)
\* r'(?:invoice|bill|statement)\s*date[.:\s]*(...)'
AltInvoiceDatePattern ==
    SeqOf(<<Alt(<<Lit(<<"i", "n", "v", "o", "i", "c", "e">>), Lit(<<"b", "i", "l", "l">>), Lit(<<"s", "t", "a", "t", "e", "m", "e", "n", "t">>)>>), Spaces, Lit(<<"d", "a", "t", "e">>), Separators,
            DateCapture>>)
\* r'(?:vendor|supplier|from|bill\s*from|sold\s*by)[.:\s]*([A-Za-z0-9\s.,&]+?)
\*   (?:\n|Inc\.|\bLLC\b|\bLtd\b|\bCorp\.?\b)'
VendorPattern ==
    SeqOf(<<Alt(<<Lit(<<"v", "e", "n", "d", "o", "r">>), Lit(<<"s", "u", "p", "p", "l", "i", "e", "r">>), Lit(<<"f", "r", "o", "m">>), SeqOf(<<Lit(<<"b", "i", "l", "l">>), Spaces, Lit(<<"f", "r", "o", "m">>)>>),
                  SeqOf(<<Lit(<<"s", "o", "l", "d">>), Spaces, Lit(<<"b", "y">>)>>)>>),
            Separators,
            Group(LazyPlus(Chr(Letters \cup Digits \cup SpaceChars \cup {".", ",", "&"}))),
            Alt(<<Chr({"\n"}), Lit(<<"I", "n", "c", ".">>),
                  SeqOf(<<WordBoundary, Lit(<<"L", "L", "C">>), WordBoundary>>),
                  SeqOf(<<WordBoundary, Lit(<<"L", "t", "d">>), WordBoundary>>),
                  SeqOf(<<WordBoundary, Lit(<<"C", "o", "r", "p">>), Opt(Chr({"."})), WordBoundary>>)>>)>>)
\* r'([^<@]+)@'
SenderPattern == SeqOf(<<Group(Plus(NotChr({"<", "@"}))), Chr({"@"})>>)
\* r'(?:due|payment\s*due|due\s*date)[.:\s]*(...)'
DueDatePattern ==
    SeqOf(<<Alt(<<Lit(<<"d", "u", "e">>), SeqOf(<<Lit(<<"p", "a", "y", "m", "e", "n", "t">>), Spaces, Lit(<<"d", "u", "e">>)>>),
                  SeqOf(<<Lit(<<"d", "u", "e">>), Spaces, Lit(<<"d", "a", "t", "e">>)>>)>>),
            Separators, DateCapture>>)
\* r'(?:tax|vat|gst)[.:\s]*[$€£]?\s*(...)'
TaxPattern ==
    SeqOf(<<Alt(<<Lit(<<"t", "a", "x">>), Lit(<<"v", "a", "t">>), Lit(<<"g", "s", "t">>)>>), Separators, CurrencySign, Spaces,
            AmountCapture>>)
\* r'(?:subtotal|sub\s*total)[.:\s]*[$€£]?\s*(...)'
SubtotalPattern ==
    SeqOf(<<Alt(<<Lit(<<"s", "u", "b", "t", "o", "t", "a", "l">>), SeqOf(<<Lit(<<"s", "u", "b">>), Spaces, Lit(<<"t", "o", "t", "a", "l">>)>>)>>), Separators,
            CurrencySign, Spaces, AmountCapture>>)
\* r'(?:currency|in)[.:\s]*(USD|EUR|GBP|JPY|CAD|AUD|CHF)'
CurrencyPattern ==
    SeqOf(<<Alt(<<Lit(<<"c", "u", "r", "r", "e", "n", "c", "y">>), Lit(<<"i", "n">>)>>), Separators,
            Group(Alt(<<Lit(<<"U", "S", "D">>), Lit(<<"E", "U", "R">>), Lit(<<"G", "B", "P">>), Lit(<<"J", "P", "Y">>), Lit(<<"C", "A", "D">>), Lit(<<"A", "U", "D">>), Lit(<<"C", "H", "F">>)>>))>>)

\* str.replace(old, new) for a single character old
Replace(chars, old, new) ==
    Concat([i \in 1..Len(chars) |-> IF chars[i] = old THEN new ELSE <<chars[i]>>])

PyUpper(chars) == [i \in 1..Len(chars) |-> UpperChar(chars[i])]

\* str.strip()
RECURSIVE PyLStrip(_)
PyLStrip(chars) ==
    IF chars # <<>> /\ Head(chars) \in SpaceChars THEN PyLStrip(Tail(chars)) ELSE chars
RECURSIVE PyRStrip(_)
PyRStrip(chars) ==
    IF chars # <<>> /\ chars[Len(chars)] \in SpaceChars
    THEN PyRStrip(SubSeq(chars, 1, Len(chars) - 1))
    ELSE chars
PyStrip(chars) == PyRStrip(PyLStrip(chars))

\* str.title(): a letter after a letter is lower-cased, any other letter is
\* upper-cased
PyTitle(chars) ==
    [i \in 1..Len(chars) |->
        IF i > 1 /\ chars[i - 1] \in Letters
        THEN LowerChar(chars[i])
        ELSE UpperChar(chars[i])]

DigitValue(ch) ==
    CASE ch = "0" -> 0 [] ch = "1" -> 1 [] ch = "2" -> 2 [] ch = "3" -> 3
      [] ch = "4" -> 4 [] ch = "5" -> 5 [] ch = "6" -> 6 [] ch = "7" -> 7
      [] ch = "8" -> 8 [] ch = "9" -> 9

RECURSIVE DigitsValue(_)
DigitsValue(chars) ==
    IF chars = <<>> THEN 0
    ELSE 10 * DigitsValue(SubSeq(chars, 1, Len(chars) - 1)) + DigitValue(chars[Len(chars)])

\* float(s) for the strings the patterns can hand to it: digits, or digits
\* with a point and two digits, give the amount (held in cents); any other
\* string, as one that holds a comma, raises ValueError
FloatOf(chars) ==
    LET n == Len(chars) IN
    IF chars # <<>> /\ \A i \in 1..n : chars[i] \in Digits
    THEN [raised |-> FALSE, value |-> Real(100 * DigitsValue(chars))]
    ELSE IF /\ n >= 4
            /\ chars[n - 2] = "."
            /\ \A i \in 1..n : i # n - 2 => chars[i] \in Digits
    THEN [raised |-> FALSE,
          value |-> Real(100 * DigitsValue(SubSeq(chars, 1, n - 3))
                           + DigitsValue(SubSeq(chars, n - 1, n)))]
    ELSE [raised |-> TRUE, value |-> NullAmount]

\* float of the capture as it stands, thousands separators included
AmountOf_KeepSeparators(capture) == FloatOf(capture)

\* float(match.group(1).replace(',', ''))
AmountOf(capture) == FloatOf(Replace(capture, ",", <<>>))

\* the second pattern tried before the first
FirstCapture_FallbackFirst(first, second, text) ==
    LET alt == SearchIgnoreCase(second, text) IN
    IF alt.found THEN Text(Group1(alt, text))
    ELSE LET m == SearchIgnoreCase(first, text) IN
         IF m.found THEN Text(Group1(m, text)) ELSE NullText

\* a field with a first and a second pattern: the capture of the first one
\* that matches, or None
FirstCapture(first, second, text) ==
    LET m == SearchIgnoreCase(first, text) IN
    IF m.found THEN Text(Group1(m, text))
    ELSE LET alt == SearchIgnoreCase(second, text) IN
         IF alt.found THEN Text(Group1(alt, text)) ELSE NullText

\* an amount field: [raised, value], value None when no pattern matches
AmountField(patterns, text) ==
    LET first == SearchIgnoreCase(patterns[1], text) IN
    IF first.found THEN AmountOf(Group1(first, text))
    ELSE IF Len(patterns) = 1 THEN [raised |-> FALSE, value |-> NullAmount]
    ELSE LET alt == SearchIgnoreCase(patterns[2], text) IN
         IF alt.found THEN AmountOf(Group1(alt, text))
         ELSE [raised |-> FALSE, value |-> NullAmount]

InvoiceDateOf(text) ==
    LET date_match == Search(InvoiceDatePattern, text) IN
    IF date_match.found THEN Text(Group0(date_match, text))
    ELSE LET alt_date_match == SearchIgnoreCase(AltInvoiceDatePattern, text) IN
         IF alt_date_match.found THEN Text(Group1(alt_date_match, text)) ELSE NullText

\* email_sender is None (NullText) or a string
VendorNameOf(text, email_sender) ==
    LET vendor_match == SearchIgnoreCase(VendorPattern, text) IN
    IF vendor_match.found THEN Text(PyStrip(Group1(vendor_match, text)))
    ELSE IF Truthy(email_sender)
    THEN LET sender_match == Search(SenderPattern, email_sender.s) IN
         IF sender_match.found
         THEN Text(PyTitle(Replace(Group1(sender_match, email_sender.s), ".", <<" ">>)))
         ELSE NullText
    ELSE NullText

DueDateOf(text) ==
    LET due_date_match == SearchIgnoreCase(DueDatePattern, text) IN
    IF due_date_match.found THEN Text(Group1(due_date_match, text)) ELSE NullText

\* the symbols looked for before the currency code
CurrencyOf_SymbolsFirst(text) ==
    IF Search(Chr({"$"}), text).found THEN <<"U", "S", "D">>
    ELSE IF Search(Chr({"€"}), text).found THEN <<"E", "U", "R">>
    ELSE IF Search(Chr({"£"}), text).found THEN <<"G", "B", "P">>
    ELSE LET currency_match == SearchIgnoreCase(CurrencyPattern, text) IN
         IF currency_match.found THEN PyUpper(Group1(currency_match, text))
         ELSE <<"U", "S", "D">>

CurrencyOf(text) ==
    LET currency_match == SearchIgnoreCase(CurrencyPattern, text) IN
    IF currency_match.found THEN PyUpper(Group1(currency_match, text))
    ELSE IF Search(Chr({"$"}), text).found THEN <<"U", "S", "D">>
    ELSE IF Search(Chr({"€"}), text).found THEN <<"E", "U", "R">>
    ELSE IF Search(Chr({"£"}), text).found THEN <<"G", "B", "P">>
    ELSE <<"U", "S", "D">>

\* the dictionary the function returns, or raised when a float() call has
\* raised
ExtractInvoiceDetails(text, filepath, email_sender) ==
    LET total_amount == AmountField(<<TotalAmountPattern, AltTotalAmountPattern>>, text)
        tax_amount == AmountField(<<TaxPattern>>, text)
        subtotal == AmountField(<<SubtotalPattern>>, text)
    IN  [raised |-> total_amount.raised \/ tax_amount.raised \/ subtotal.raised,
         invoice_number |->
             FirstCapture(InvoiceNumberPattern, AltInvoiceNumberPattern, text),
         purchase_order |->
             FirstCapture(PurchaseOrderPattern, AltPurchaseOrderPattern, text),
         total_amount |-> total_amount.value,
         invoice_date |-> InvoiceDateOf(text),
         file_path |-> filepath,
         vendor_name |-> VendorNameOf(text, email_sender),
         due_date |-> DueDateOf(text),
         tax_amount |-> tax_amount.value,
         subtotal |-> subtotal.value,
         currency |-> CurrencyOf(text),
         status |-> "pending",
         extracted_from |-> "email_attachment"]

(***************************************************************************)
(* The extractor on strings: every text made of at most MaxExtractPieces   *)
(* of the pieces below, with and without a sender address.                 *)
(***************************************************************************)
MaxExtractPieces == 2

ExtractPieces ==
    {<<"I", "n", "v", "o", "i", "c", "e", " ", "#", " ", "4", "4", "1", "2", " ", ".", ".", ".", " ">>,
     <<"T", "o", "t", "a", "l", " ", "A", "m", "o", "u", "n", "t", ":", " ", "$", "1", ",", "2", "5", "0", ".", "0", "0">>,
     <<"T", "o", "t", "a", "l", " ", "A", "m", "o", "u", "n", "t", ":", " ", "1", ",", "2", "5", "0", ".", "0", "0">>,
     <<"P", "O", "-", "7", " ", "T", "a", "x", " ", "5", ".", "0", "0", " ", "i", "n", " ", "g", "b", "p", " ">>,
     <<"D", "u", "e", " ", "1", "2", "/", "0", "1", "/", "2", "0", "2", "4", " ", "S", "u", "b", "t", "o", "t", "a", "l", " ", "£", "1", ",", "2", "4", "5", ".", "0", "0", "\n", "F", "r", "o", "m", ":", " ", "A", "c", "m", "e", " ", "I", "n", "c", ".">>,
     <<"h", "e", "l", "l", "o">>}

ExtractTexts == TextsOf(ExtractPieces, MaxExtractPieces)

ExtractSenders == {NullText, Text(<<"j", ".", "d", "o", "e", "@", "a", "c", "m", "e", ".", "c", "o", "m">>)}

\* the call that Init has given its arguments returns its dictionary, or
\* raises
ExtractInvoiceDetailsCall ==
    /\ ret.op = "call extract_invoice_details_from_text"
    /\ ret' = [op |-> "extract_invoice_details_from_text", text |-> ret.text,
               email_sender |-> ret.email_sender,
               value |-> ExtractInvoiceDetails(ret.text, None, ret.email_sender)]
    /\ UNCHANGED <<purchase_orders, invoices, validation_reports, monitor_vars,
                   writers, loop, notifications>>

InitExtract ==
    /\ purchase_orders = <<>>
    /\ invoices = <<>>
    /\ validation_reports = <<>>
    /\ \E text \in ExtractTexts, email_sender \in ExtractSenders :
          ret = [op |-> "call extract_invoice_details_from_text", text |-> text,
                 email_sender |-> email_sender]
    /\ InitMonitorIdle
    /\ writers = NoWriters
    /\ loop = NoLoop
    /\ notifications = <<>>

NextExtract == ExtractInvoiceDetailsCall

SpecExtract == InitExtract /\ [][NextExtract]_vars

(***************************************************************************)
(* The extractor's rules against each other: texts in which the primary    *)
(* and the fallback rule of a field, or a currency code and the currency   *)
(* symbols, occur together in either order.                                *)
(***************************************************************************)
RulePieces ==
    {<<"I", "n", "v", "o", "i", "c", "e", " ", "#", " ", "4", "4", "1", "2", " ">>,
     <<"I", "n", "v", "o", "i", "c", "e", " ", "N", "o", ".", " ", "7", "7", " ">>,
     <<"P", "u", "r", "c", "h", "a", "s", "e", " ", "O", "r", "d", "e", "r", " ", "#", " ", "5", "5", " ", "T", "o", "t", "a", "l", " ", "A", "m", "o", "u", "n", "t", ":", " ", "1", ",", "2", "5", "0", ".", "0", "0", " ">>,
     <<"P", "O", ":", " ", "7", " ", "T", "o", "t", "a", "l", ":", " ", "€", "9", "9", ".", "5", "0", " ">>,
     <<"I", "n", "v", "o", "i", "c", "e", " ", "D", "a", "t", "e", ":", " ", "3", "-", "4", "-", "2", "4", " ", "i", "n", " ", "e", "u", "r", " ">>,
     <<"D", "u", "e", " ", "1", "2", "/", "0", "1", "/", "2", "0", "2", "4", " ", "£", "5", " ">>,
     <<"$">>}

RuleTexts == TextsOf(RulePieces, MaxExtractPieces)

InitExtractRules ==
    /\ purchase_orders = <<>>
    /\ invoices = <<>>
    /\ validation_reports = <<>>
    /\ \E text \in RuleTexts :
          ret = [op |-> "call extract_invoice_details_from_text", text |-> text,
                 email_sender |-> NullText]
    /\ InitMonitorIdle
    /\ writers = NoWriters
    /\ loop = NoLoop
    /\ notifications = <<>>

NextExtractRules == ExtractInvoiceDetailsCall

SpecExtractRules == InitExtractRules /\ [][NextExtractRules]_vars

(***************************************************************************)
(* email_monitor.py: messages.  An attachment is a part with a filename;   *)
(* saved tells whether download_attachment wrote it, readable whether      *)
(* PdfReader opens it, details is what extract_invoice_details_from_text   *)
(* finds in its text.                                                      *)
(***************************************************************************)
InvoiceText ==
    [terms |-> {"invoice", "invoice number", "total amount"},
     invoice_hash |-> FALSE, total_digits |-> TRUE]
LetterText == [terms |-> {"statement"}, invoice_hash |-> FALSE, total_digits |-> FALSE]

Details(invoice_number, purchase_order) ==
    [invoice_number |-> invoice_number, purchase_order |-> purchase_order,
     vendor_name |-> Text(<<"A", "b">>), total_amount |-> Real(10000)]

InvoicePdf(invoice_number, purchase_order) ==
    [filename |-> ".pdf", saved |-> TRUE, readable |-> TRUE, text |-> InvoiceText,
     details |-> Details(invoice_number, purchase_order)]
LetterPdf ==
    [filename |-> ".pdf", saved |-> TRUE, readable |-> TRUE, text |-> LetterText,
     details |-> Details(None, None)]
BrokenPdf ==
    [filename |-> ".pdf", saved |-> TRUE, readable |-> FALSE, text |-> InvoiceText,
     details |-> Details(None, None)]
\* a scanned PDF for which OCR fails: extract_text_from_file returns ''
EmptyPdf ==
    [filename |-> ".pdf", saved |-> TRUE, readable |-> TRUE, text |-> Scan(<<>>),
     details |-> Details(None, None)]
Spreadsheet ==
    [filename |-> ".xlsx", saved |-> TRUE, readable |-> TRUE, text |-> InvoiceText,
     details |-> Details("INV2", "PO100")]

Messages ==
    {[message_id |-> "m1", body |-> InvoiceText,
      attachments |-> <<InvoicePdf("INV1", "PO100")>>],
     [message_id |-> "m2", body |-> InvoiceText,
      attachments |-> <<Spreadsheet, LetterPdf, EmptyPdf, InvoicePdf("INV1", "PO100"),
                        InvoicePdf("INV2", "PO200")>>],
     [message_id |-> "m3", body |-> InvoiceText,
      attachments |-> <<InvoicePdf("INV2", "PO200"), BrokenPdf>>],
     [message_id |-> "m4", body |-> LetterText,
      attachments |-> <<InvoicePdf("INV2", "PO200")>>]}

(***************************************************************************)
(* email_monitor.py: process_attachments, process_email                    *)
(***************************************************************************)
AcceptedExtensions == {".pdf", ".png", ".jpg", ".jpeg", ".tiff", ".bmp"}

\* a loop in which a document without text raises
ProcessPart_EmptyTextRaises(part, acc) ==
    IF part.filename \notin AcceptedExtensions \/ ~part.saved
    THEN acc
    ELSE IF ~part.readable \/ part.text = Scan(<<>>)
    THEN [acc EXCEPT !.raised = TRUE]
    ELSE IF ~IsPotentialInvoice(part.text)
    THEN acc
    ELSE LET out == AddInvoiceOutcome(acc.invoices, part.details) IN
         IF out.id # 0
         THEN [acc EXCEPT !.invoices = out.invoices,
                          !.processed_invoices = Append(@, out.id),
                          !.invoice_log = Append(@, part.details.invoice_number)]
         ELSE acc

\* one pass of the loop over the parts; acc holds the invoices table, the
\* list processed_invoices, the lines of invoice_log.csv, and whether
\* extract_text_from_file has raised
ProcessPart(part, acc) ==
    IF part.filename \notin AcceptedExtensions \/ ~part.saved
    THEN acc
    ELSE IF ~part.readable
    THEN [acc EXCEPT !.raised = TRUE]
    ELSE IF ~IsPotentialInvoice(part.text)
    THEN acc
    ELSE LET out == AddInvoiceOutcome(acc.invoices, part.details) IN
         IF out.id # 0
         THEN [acc EXCEPT !.invoices = out.invoices,
                          !.processed_invoices = Append(@, out.id),
                          !.invoice_log = Append(@, part.details.invoice_number)]
         ELSE acc

RECURSIVE ProcessAttachments(_, _)
ProcessAttachments(parts, acc) ==
    IF parts = <<>> \/ acc.raised
    THEN acc
    ELSE ProcessAttachments(Tail(parts), ProcessPart(Head(parts), acc))

ProcessEmailOutcome(email_message) ==
    LET acc == [invoices |-> invoices, processed_invoices |-> <<>>,
                invoice_log |-> invoice_log, raised |-> FALSE]
    IN  IF IsPotentialInvoice(email_message.body)
        THEN ProcessAttachments(email_message.attachments, acc)
        ELSE acc

\* the return value: the list, or nothing when an exception left the call
\* (monitor_mailbox catches and logs it)
ProcessEmailReturn(message_id, skipped, out) ==
    [op |-> "process_email", arg |-> message_id, skipped |-> skipped,
     raised |-> out.raised,
     processed_invoices |-> IF out.raised THEN <<>> ELSE out.processed_invoices]

\* a key of its own for every message without the header
GetMessageId_PerMessage(email_message) ==
    IF "message_id" \in DOMAIN email_message
    THEN email_message.message_id
    ELSE Head(email_message.attachments).details.invoice_number

\* email_message.get("Message-ID", ""): a message without the header is a
\* record without the field
GetMessageId(email_message) ==
    IF "message_id" \in DOMAIN email_message THEN email_message.message_id ELSE ""

\* the identifier added after the work: a call that an exception leaves
\* does not reach the add
ProcessEmail_AddAfterWork(email_message) ==
    /\ calls < MaxCalls
    /\ calls' = calls + 1
    /\ IF GetMessageId(email_message) \in processed_emails
       THEN /\ ret' = [op |-> "process_email", arg |-> GetMessageId(email_message),
                       skipped |-> TRUE, raised |-> FALSE,
                       processed_invoices |-> <<>>]
            /\ UNCHANGED <<processed_emails, invoices, invoice_log>>
       ELSE LET out == ProcessEmailOutcome(email_message) IN
            /\ Len(out.invoices) <= MaxInvoices
            /\ processed_emails' = IF out.raised THEN processed_emails
                                   ELSE processed_emails \cup {GetMessageId(email_message)}
            /\ invoices' = out.invoices
            /\ invoice_log' = out.invoice_log
            /\ ret' = ProcessEmailReturn(GetMessageId(email_message), FALSE, out)
    /\ UNCHANGED <<purchase_orders, validation_reports, processed_emails_file,
                   instance, writers, loop, notifications>>

ProcessEmail(email_message) ==
    /\ calls < MaxCalls
    /\ calls' = calls + 1
    /\ IF GetMessageId(email_message) \in processed_emails
       THEN /\ ret' = [op |-> "process_email", arg |-> GetMessageId(email_message),
                       skipped |-> TRUE, raised |-> FALSE,
                       processed_invoices |-> <<>>]
            /\ UNCHANGED <<processed_emails, invoices, invoice_log>>
       ELSE LET out == ProcessEmailOutcome(email_message) IN
            /\ Len(out.invoices) <= MaxInvoices
            /\ processed_emails' = processed_emails \cup {GetMessageId(email_message)}
            /\ invoices' = out.invoices
            /\ invoice_log' = out.invoice_log
            /\ ret' = ProcessEmailReturn(GetMessageId(email_message), FALSE, out)
    /\ UNCHANGED <<purchase_orders, validation_reports, processed_emails_file,
                   instance, writers, loop, notifications>>

(***************************************************************************)
(* email_monitor.py: the persisted set of processed messages               *)
(***************************************************************************)
\* list(a_set): the elements, each once, in an order of the interpreter's
RECURSIVE SetToList(_)
SetToList(S) ==
    IF S = {} THEN <<>>
    ELSE LET x == CHOOSE y \in S : TRUE IN <<x>> \o SetToList(S \ {x})

\* set(a_list)
ListToSet(list) == {list[i] : i \in 1..Len(list)}

\* json.dump of a list of str, json.load of the text it wrote
JsonDump(list) == [json |-> "array", items |-> [i \in 1..Len(list) |-> [json |-> "string", chars |-> list[i]]]]
JsonLoad(text) == [i \in 1..Len(text.items) |-> text.items[i].chars]

SaveProcessedEmails ==
    /\ processed_emails_file' = JsonDump(SetToList(processed_emails))
    /\ ret' = [op |-> "save_processed_emails"]
    /\ UNCHANGED <<purchase_orders, invoices, validation_reports, processed_emails,
                   invoice_log, instance, calls, writers, loop, notifications>>

\* a constructor that leaves the set empty whatever the file holds
LoadProcessedEmails_Forget(file) == {}

LoadProcessedEmails(file) ==
    IF file # NoFile THEN ListToSet(JsonLoad(file)) ELSE {}

\* setup_database: DELETE FROM t WHERE id NOT IN (SELECT MIN(id) ... GROUP BY
\* the number column)
RECURSIVE RowsFrom(_, _, _)
RowsFrom(table, ids, i) ==
    IF i > Len(table) THEN <<>>
    ELSE (IF i \in ids THEN <<table[i]>> ELSE <<>>) \o RowsFrom(table, ids, i + 1)

RemoveDuplicates(table, column) ==
    RowsFrom(table,
             {i \in 1..Len(table) :
                 \A k \in 1..Len(table) : table[k][column] = table[i][column] => i <= k},
             1)

\* the process ends (the in-memory set is lost) and a new InvoiceMonitor is
\* constructed: DatabaseManager(), then load_processed_emails()
NewInvoiceMonitor ==
    /\ instance < MaxInstances
    /\ instance' = instance + 1
    /\ calls' = 0
    /\ invoices' = RemoveDuplicates(invoices, "invoice_number")
    /\ purchase_orders' = RemoveDuplicates(purchase_orders, "po_number")
    /\ processed_emails' = LoadProcessedEmails(processed_emails_file)
    /\ ret' = [op |-> "InvoiceMonitor"]
    /\ UNCHANGED <<validation_reports, processed_emails_file, invoice_log, writers, loop, notifications>>

(***************************************************************************)
(* validate_purchase_order, and a store whose purchase order PO100 may be  *)
(* inactive: the orchestrator stores invoices that name it and a client    *)
(* validates them.                                                         *)
(***************************************************************************)
\* SELECT id FROM purchase_orders WHERE po_number = ? AND status = 'active';
\* result is not None
ValidatePurchaseOrder(po_number) ==
    \E i \in 1..Len(purchase_orders) :
        /\ po_number # None
        /\ purchase_orders[i].po_number = po_number
        /\ purchase_orders[i].status = "active"

ValidatePurchaseOrderCall(po_number) ==
    /\ ret' = [op |-> "validate_purchase_order", arg |-> po_number,
               value |-> ValidatePurchaseOrder(po_number)]
    /\ UNCHANGED <<purchase_orders, invoices, validation_reports, monitor_vars,
                   writers, loop, notifications>>

InitInactive ==
    /\ \E status \in {"active", "inactive"} :
          purchase_orders =
              <<[po_number |-> "PO100", vendor_name |-> Text(<<"A", "b">>),
                 total_amount |-> Real(10000), status |-> status]>>
    /\ invoices = <<>>
    /\ validation_reports = <<>>
    /\ ret = NoCall
    /\ InitMonitorIdle
    /\ writers = NoWriters
    /\ loop = NoLoop
    /\ notifications = <<>>

NextInactive ==
    \/ \E email_message \in {m \in Messages : m.message_id \in {"m1", "m2"}} :
           ProcessEmail(email_message)
    \/ \E ident \in Identifiers : ValidateInvoice(ident, "none")
    \/ \E po_number \in {"PO100", "PO200"} : ValidatePurchaseOrderCall(po_number)

SpecInactive == InitInactive /\ [][NextInactive]_vars

(***************************************************************************)
(* Re-opening the store: DatabaseManager() runs setup_database on the      *)
(* database file as it stands.  The invoices are stored as the             *)
(* orchestrator stores them, with the invoice number the extractor found   *)
(* or with none.                                                           *)
(***************************************************************************)
\* DatabaseManager.__init__: setup_database (CREATE TABLE IF NOT EXISTS
\* changes nothing on an existing store) with its two DELETE statements
SetupDatabase ==
    /\ invoices' = RemoveDuplicates(invoices, "invoice_number")
    /\ purchase_orders' = RemoveDuplicates(purchase_orders, "po_number")
    /\ ret' = [op |-> "DatabaseManager"]
    /\ UNCHANGED <<validation_reports, monitor_vars, writers, loop, notifications>>

ReopenInvoiceDataSet ==
    [invoice_number : {None, "INV1"}, purchase_order : {"PO100"},
     vendor_name : InvoiceVendors, total_amount : InvoiceAmounts]

NextReopen ==
    \/ \E invoice_data \in ReopenInvoiceDataSet : AddInvoice(invoice_data)
    \/ \E n \in 1..MaxInvoices : ValidateInvoice(IntId(n), "none")
    \/ \E report_id \in ReportIds, approval_status \in Decisions :
           UpdateApprovalStatus(report_id, approval_status, None)
    \/ SetupDatabase

(***************************************************************************)
(* The orchestrator on a store that holds purchase order PO100, next to a  *)
(* client of the store that adds invoice INV1 under another vendor name    *)
(* and validates it.                                                       *)
(***************************************************************************)
ClientInvoiceDataSet ==
    [invoice_number : {"INV1"}, purchase_order : {"PO100"},
     vendor_name : InvoiceVendors \ POVendors, total_amount : InvoiceAmounts]

InitMonitor ==
    /\ purchase_orders =
           <<[po_number |-> "PO100", vendor_name |-> Text(<<"A", "b">>),
              total_amount |-> Real(10000), status |-> "active"]>>
    /\ invoices = <<>>
    /\ validation_reports = <<>>
    /\ ret = NoCall
    /\ InitMonitorIdle
    /\ writers = NoWriters
    /\ loop = NoLoop
    /\ notifications = <<>>

\* two messages without a Message-ID header, each with an invoice of its own
UnidentifiedMessages ==
    {[body |-> InvoiceText, attachments |-> <<InvoicePdf("INV1", "PO100")>>],
     [body |-> InvoiceText, attachments |-> <<InvoicePdf("INV2", "PO200")>>]}

\* the orchestrator given these two messages and message m4
NextUnidentified ==
    \/ \E email_message \in UnidentifiedMessages
                              \cup {m \in Messages : m.message_id = "m4"} :
           ProcessEmail(email_message)
    \/ SaveProcessedEmails
    \/ NewInvoiceMonitor

SpecUnidentified == InitMonitor /\ [][NextUnidentified]_vars

NextMonitor ==
    \/ \E email_message \in Messages : ProcessEmail(email_message)
    \/ SaveProcessedEmails
    \/ NewInvoiceMonitor
    \/ \E invoice_data \in ClientInvoiceDataSet : AddInvoice(invoice_data)
    \/ \E invoice_data \in ClientInvoiceDataSet :
           ValidateInvoice(StrId(invoice_data.invoice_number), "none")

SpecMonitor == InitMonitor /\ [][NextMonitor]_vars

SpecReopen == InitMonitor /\ [][NextReopen]_vars

(***************************************************************************)
(* email_monitor.py: monitor_mailbox and main.  loop holds the position of *)
(* the loop (pc), the attempts and waits of the connect_to_mailbox call in *)
(* progress or last made, the mailbox on the server (the ids of the UNSEEN *)
(* messages in arrival order, and of those a fetch has marked seen), the   *)
(* messages of the batch that are still to be fetched, the ids of the      *)
(* whole batch, and the message process_email is working on.               *)
(***************************************************************************)
\* def connect_to_mailbox(self, retries=3, delay=60)
retries == 3

MailboxMessages == {m \in Messages : m.message_id \in {"m1", "m3", "m4"}}

MessageById(message_id) == CHOOSE m \in Messages : m.message_id = message_id

SeqToSet(list) == {list[i] : i \in 1..Len(list)}

\* a new message arrives in the INBOX
Deliver(email_message) ==
    /\ loop.pc # "stopped"
    /\ email_message.message_id \notin SeqToSet(loop.unseen) \cup loop.seen
    /\ loop' = [loop EXCEPT !.unseen = Append(@, email_message.message_id)]
    /\ UNCHANGED <<purchase_orders, invoices, validation_reports, ret, monitor_vars,
                   writers, notifications>>

\* a connect_to_mailbox that sleeps and tries again after every failure
AfterFailedAttempt_AlwaysRetry(l) == [l EXCEPT !.pc = "delay"]

\* the except clause of connect_to_mailbox, attempt being the number of the
\* attempt that failed: sleep(delay) and go on, or return None
AfterFailedAttempt(l) ==
    IF l.attempt < retries
    THEN [l EXCEPT !.pc = "delay"]
    ELSE [l EXCEPT !.pc = "unreachable"]

\* one pass of the for loop of connect_to_mailbox: IMAP4_SSL and login
\* succeed (return mail) or one of them raises
ConnectAttempt(connected) ==
    /\ loop.pc = "connect"
    /\ loop' = IF connected
               THEN [loop EXCEPT !.attempt = @ + 1, !.pc = "select"]
               ELSE AfterFailedAttempt([loop EXCEPT !.attempt = @ + 1])
    /\ UNCHANGED <<purchase_orders, invoices, validation_reports, ret, monitor_vars,
                   writers, notifications>>

\* time.sleep(delay) of connect_to_mailbox returns
ConnectDelay ==
    /\ loop.pc = "delay"
    /\ loop' = [loop EXCEPT !.waits = @ + 1, !.pc = "connect"]
    /\ UNCHANGED <<purchase_orders, invoices, validation_reports, ret, monitor_vars,
                   writers, notifications>>

\* time.sleep(60) after 'if not mail', or time.sleep(check_interval),
\* returns: the while loop calls connect_to_mailbox() again
NextCycle ==
    /\ loop.pc \in {"unreachable", "sleep"}
    /\ loop' = [loop EXCEPT !.pc = "connect", !.attempt = 0, !.waits = 0]
    /\ UNCHANGED <<purchase_orders, invoices, validation_reports, ret, monitor_vars,
                   writers, notifications>>

\* mail.select("INBOX") and mail.search(None, 'UNSEEN'): a status other than
\* OK, or no unread message, ends the cycle; otherwise the batch is the
\* list of the unread messages
SelectAndSearch(status) ==
    /\ loop.pc = "select"
    /\ loop' = IF status # "OK" \/ loop.unseen = <<>>
               THEN [loop EXCEPT !.pc = "sleep"]
               ELSE [loop EXCEPT !.pc = "batch", !.batch = loop.unseen,
                                 !.batch_ids = SeqToSet(loop.unseen)]
    /\ UNCHANGED <<purchase_orders, invoices, validation_reports, ret, monitor_vars,
                   writers, notifications>>

\* mail.fetch(num, '(RFC822)') marks the message seen; process_email is
\* called and runs up to line 507: a known id returns [], a new one is added
\* to the set
FetchAndMark ==
    /\ loop.pc = "batch"
    /\ loop.batch # <<>>
    /\ calls < MaxCalls
    /\ calls' = calls + 1
    /\ LET message_id == Head(loop.batch)
           fetched == [loop EXCEPT !.batch = Tail(@),
                                   !.unseen = SelectSeq(@, LAMBDA x : x # message_id),
                                   !.seen = @ \cup {message_id}]
       IN  IF message_id \in processed_emails
           THEN /\ loop' = fetched
                /\ ret' = [op |-> "process_email", arg |-> message_id,
                           skipped |-> TRUE, raised |-> FALSE,
                           processed_invoices |-> <<>>]
                /\ UNCHANGED processed_emails
           ELSE /\ loop' = [fetched EXCEPT !.pc = "document", !.document = message_id]
                /\ processed_emails' = processed_emails \cup {message_id}
                /\ UNCHANGED ret
    /\ UNCHANGED <<purchase_orders, invoices, validation_reports,
                   processed_emails_file, invoice_log, instance, writers,
                   notifications>>

\* the rest of process_email (lines 509-526); an exception leaves the for
\* loop and the try block for the except clause of line 492
FinishDocument ==
    /\ loop.pc = "document"
    /\ LET out == ProcessEmailOutcome(MessageById(loop.document)) IN
        /\ Len(out.invoices) <= MaxInvoices
        /\ invoices' = out.invoices
        /\ invoice_log' = out.invoice_log
        /\ ret' = ProcessEmailReturn(loop.document, FALSE, out)
        /\ loop' = IF out.raised
                   THEN [loop EXCEPT !.pc = "sleep", !.document = None,
                                     !.batch = <<>>, !.batch_ids = {}]
                   ELSE [loop EXCEPT !.pc = "batch", !.document = None]
    /\ UNCHANGED <<purchase_orders, validation_reports, processed_emails,
                   processed_emails_file, instance, calls, writers, notifications>>

\* mail.fetch raises (the connection is lost): the except clause of line 492
FetchRaises ==
    /\ loop.pc = "batch"
    /\ loop.batch # <<>>
    /\ loop' = [loop EXCEPT !.pc = "sleep", !.batch = <<>>, !.batch_ids = {}]
    /\ UNCHANGED <<purchase_orders, invoices, validation_reports, ret, monitor_vars,
                   writers, notifications>>

\* the for loop is done: mail.logout(), save_processed_emails()
EndBatch ==
    /\ loop.pc = "batch"
    /\ loop.batch = <<>>
    /\ processed_emails_file' = JsonDump(SetToList(processed_emails))
    /\ ret' = [op |-> "save_processed_emails"]
    /\ loop' = [loop EXCEPT !.pc = "sleep", !.batch_ids = {}]
    /\ UNCHANGED <<purchase_orders, invoices, validation_reports, processed_emails,
                   invoice_log, instance, calls, writers, notifications>>

\* Ctrl-C: KeyboardInterrupt is raised at the instruction the main thread
\* is at, passes every 'except Exception', and main logs it and calls
\* save_processed_emails()
KeyboardInterrupt ==
    /\ loop.pc # "stopped"
    /\ processed_emails_file' = JsonDump(SetToList(processed_emails))
    /\ ret' = [op |-> "save_processed_emails"]
    /\ loop' = [loop EXCEPT !.pc = "stopped"]
    /\ UNCHANGED <<purchase_orders, invoices, validation_reports, processed_emails,
                   invoice_log, instance, calls, writers, notifications>>

InitMailbox ==
    /\ purchase_orders =
           <<[po_number |-> "PO100", vendor_name |-> Text(<<"A", "b">>),
              total_amount |-> Real(10000), status |-> "active"]>>
    /\ invoices = <<>>
    /\ validation_reports = <<>>
    /\ ret = NoCall
    /\ InitMonitorIdle
    /\ writers = NoWriters
    /\ notifications = <<>>
    /\ loop = [pc |-> "connect", attempt |-> 0, waits |-> 0, unseen |-> <<>>,
               seen |-> {}, batch |-> <<>>, batch_ids |-> {}, document |-> None]

NextMailbox ==
    \/ \E email_message \in MailboxMessages : Deliver(email_message)
    \/ \E connected \in BOOLEAN : ConnectAttempt(connected)
    \/ ConnectDelay
    \/ NextCycle
    \/ \E status \in {"OK", "NO"} : SelectAndSearch(status)
    \/ FetchAndMark
    \/ FinishDocument
    \/ FetchRaises
    \/ EndBatch
    \/ KeyboardInterrupt

SpecMailbox == InitMailbox /\ [][NextMailbox]_vars

(***************************************************************************)
(* Two DatabaseManager instances, each in one add_invoice call on the same *)
(* database file.  A connection writes under SQLite's file locks (rollback *)
(* journal, the default): the INSERT takes a SHARED and then the RESERVED  *)
(* lock and changes the connection's own copy; commit() takes PENDING and  *)
(* needs every other SHARED lock gone before it writes the file.  A lock   *)
(* that cannot be had is SQLITE_BUSY: the busy handler of                  *)
(* sqlite3.connect(path) (timeout 5.0 s) tries again until its time is up, *)
(* and then sqlite3.OperationalError 'database is locked' is raised.       *)
(* writers[w].lock is the lock connection w holds.                         *)
(***************************************************************************)
OtherLocks(w) == {writers[v].lock : v \in Writers \ {w}}

\* add_invoice(invoice_data) is called: sqlite3.connect, conn.cursor()
Connect(w) ==
    /\ writers[w].pc = "idle"
    /\ writers' = [writers EXCEPT ![w].pc = "execute"]
    /\ UNCHANGED <<purchase_orders, invoices, validation_reports, ret, monitor_vars, loop, notifications>>

\* cursor.execute(INSERT ...): the statement starts by reading the file
AcquireShared(w) ==
    /\ writers[w].pc = "execute"
    /\ writers' =
           IF OtherLocks(w) \cap {"pending", "exclusive"} # {}
           THEN [writers EXCEPT ![w].pc = "busy", ![w].resume = "execute"]
           ELSE [writers EXCEPT ![w].pc = "insert", ![w].lock = "shared"]
    /\ UNCHANGED <<purchase_orders, invoices, validation_reports, ret, monitor_vars, loop, notifications>>

\* ... and goes on to write: the RESERVED lock, then the INSERT on the table
\* as the file holds it; a UNIQUE conflict raises sqlite3.IntegrityError
Insert(w) ==
    /\ writers[w].pc = "insert"
    /\ writers' =
           IF OtherLocks(w) \cap {"reserved", "pending", "exclusive"} # {}
           THEN [writers EXCEPT ![w].pc = "busy", ![w].resume = "execute",
                                ![w].lock = "none"]
           ELSE LET out == AddInvoiceOutcome(invoices, writers[w].invoice_data) IN
                IF out.id = 0
                THEN [writers EXCEPT ![w].pc = "raised", ![w].lock = "reserved",
                                     ![w].error = "IntegrityError"]
                ELSE [writers EXCEPT ![w].pc = "commit", ![w].lock = "reserved",
                                     ![w].invoice_id = out.id]
    /\ UNCHANGED <<purchase_orders, invoices, validation_reports, ret, monitor_vars, loop, notifications>>

\* the busy handler sleeps and the lock is tried again
BusyRetry(w) ==
    /\ writers[w].pc = "busy"
    /\ writers' = [writers EXCEPT ![w].pc = writers[w].resume]
    /\ UNCHANGED <<purchase_orders, invoices, validation_reports, ret, monitor_vars, loop, notifications>>

\* the busy handler's time is up: 'database is locked'
BusyTimeout(w) ==
    /\ writers[w].pc = "busy"
    /\ writers' = [writers EXCEPT ![w].pc = "raised", ![w].error = "OperationalError"]
    /\ UNCHANGED <<purchase_orders, invoices, validation_reports, ret, monitor_vars, loop, notifications>>

\* conn.commit(): PENDING, then the file is written once no other
\* connection holds SHARED, and the locks are dropped
Commit(w) ==
    /\ writers[w].pc = "commit"
    /\ IF "shared" \in OtherLocks(w)
       THEN /\ writers' = [writers EXCEPT ![w].pc = "busy", ![w].resume = "commit",
                                          ![w].lock = "pending"]
            /\ UNCHANGED invoices
       ELSE /\ writers' = [writers EXCEPT ![w].pc = "return", ![w].lock = "none"]
            /\ invoices' = AddInvoiceOutcome(invoices, writers[w].invoice_data).invoices
    /\ UNCHANGED <<purchase_orders, validation_reports, ret, monitor_vars, loop, notifications>>

\* return invoice_id, or an except clause's return None; finally
\* conn.close() drops what the connection holds
Return(w) ==
    /\ writers[w].pc \in {"return", "raised"}
    /\ writers' = [writers EXCEPT
                      ![w].pc = "returned",
                      ![w].lock = "none",
                      ![w].result = IF writers[w].pc = "return"
                                    THEN writers[w].invoice_id ELSE 0]
    /\ UNCHANGED <<purchase_orders, invoices, validation_reports, ret, monitor_vars, loop, notifications>>

WriterInvoiceDataSet ==
    [invoice_number : InvoiceNumbers, purchase_order : InvoicePORefs,
     vendor_name : POVendors, total_amount : InvoiceAmounts]

InitWriters ==
    /\ purchase_orders = <<>>
    /\ invoices = <<>>
    /\ validation_reports = <<>>
    /\ ret = NoCall
    /\ InitMonitorIdle
    /\ loop = NoLoop
    /\ notifications = <<>>
    /\ \E data \in [Writers -> WriterInvoiceDataSet] :
           writers = [w \in Writers |->
                        [pc |-> "idle", lock |-> "none", invoice_data |-> data[w],
                         resume |-> "execute", error |-> None, invoice_id |-> 0,
                         result |-> 0]]

NextWriters ==
    \E w \in Writers :
        \/ Connect(w)
        \/ AcquireShared(w)
        \/ Insert(w)
        \/ BusyRetry(w)
        \/ BusyTimeout(w)
        \/ Commit(w)
        \/ Return(w)

SpecWriters == InitWriters /\ [][NextWriters]_vars

(***************************************************************************)
(* Properties.                                                             *)
(***************************************************************************)
\* the last call was validate_invoice on a stored invoice
ValidateReturned ==
    /\ ret.op = "validate_invoice"
    /\ ret.invoice_id \in 1..Len(invoices)

\* ... and it returned the result of a comparison (no error result)
ComparisonReturned ==
    /\ ValidateReturned
    /\ ret.message = None

HasDiscrepancy(discrepancies, field) ==
    \E k \in 1..Len(discrepancies) : discrepancies[k].field = field

\* the purchase order row an invoice row references (the rows are unique)
POOf(inv) == purchase_orders[CHOOSE i \in POIds(inv.po_number) : TRUE]

\* C1: a report is created with approval_status requires_approval when the
\* run's discrepancy set is non-empty and auto_approved when it is empty,
\* and with no other value.
C1_InitialApprovalStatus ==
    ComparisonReturned =>
        validation_reports[ret.report_id].approval_status =
            (IF ret.discrepancies # <<>> THEN "requires_approval" ELSE "auto_approved")

\* a report with discrepancies has just been created next to an
\* auto-approved one
C1_Witness ==
    /\ ComparisonReturned
    /\ ret.report_id = 2
    /\ ret.discrepancies # <<>>
    /\ validation_reports[2].approval_status = "requires_approval"
    /\ validation_reports[1].approval_status = "auto_approved"

\* C2: after a run whose purchase order resolves, the stored status is
\* discrepancies_found iff the run's discrepancy set is non-empty, validated
\* otherwise, and the returned result carries the stored status.
C2_StatusClassification ==
    (/\ ComparisonReturned
     /\ POIds(invoices[ret.invoice_id].po_number) # {})
    => /\ invoices[ret.invoice_id].status = ret.status
       /\ ret.status \in {"discrepancies_found", "validated"}
       /\ (invoices[ret.invoice_id].status = "discrepancies_found")
              <=> (ret.discrepancies # <<>>)
       /\ validation_reports[ret.report_id].discrepancies.v = ret.discrepancies

C2_Witness ==
    /\ ComparisonReturned
    /\ ret.discrepancies # <<>>
    /\ invoices[ret.invoice_id].status = "discrepancies_found"
    /\ \E i \in 1..Len(invoices) : invoices[i].status = "validated"

\* C3: a run on a stored invoice whose po_number matches no purchase order
\* sets status error and validation_result 'Purchase order not found',
\* returns an error result, and creates no report.
C3_PurchaseOrderNotFound ==
    [][(/\ ret'.op = "validate_invoice"
        /\ ret'.invoice_id \in 1..Len(invoices)
        /\ POIds(invoices[ret'.invoice_id].po_number) = {})
       => /\ invoices'[ret'.invoice_id].status = "error"
          /\ invoices'[ret'.invoice_id].validation_result = "Purchase order not found"
          /\ ret'.status = "error"
          /\ ret'.message = "Purchase order not found"
          /\ validation_reports' = validation_reports]_vars

C3_Witness ==
    /\ ValidateReturned
    /\ ret.message = "Purchase order not found"
    /\ invoices[ret.invoice_id].status = "error"
    /\ validation_reports = <<>>

\* the claim's comparison of vendor names: letter case and leading/trailing
\* whitespace ignored
RECURSIVE LStrip(_)
LStrip(s) == IF s # <<>> /\ Head(s) = " " THEN LStrip(Tail(s)) ELSE s

RECURSIVE RStrip(_)
RStrip(s) ==
    IF s # <<>> /\ s[Len(s)] = " " THEN RStrip(SubSeq(s, 1, Len(s) - 1)) ELSE s

Strip(s) == RStrip(LStrip(s))

\* C4: the amount comparison is exclusive at the 0.01 boundary: PO 100.00
\* against invoice 100.01 records no total_amount discrepancy, and PO 100.00
\* against invoice 100.02 records one whose difference is 0.02.
C4_AmountBoundary ==
    ComparisonReturned =>
        LET inv == invoices[ret.invoice_id]
            po == POOf(inv)
        IN  /\ (po.total_amount = Real(10000) /\ inv.total_amount = Real(10001))
                   => ~HasDiscrepancy(ret.discrepancies, "total_amount")
            /\ (po.total_amount = Real(10000) /\ inv.total_amount = Real(10002))
                   => \E k \in 1..Len(ret.discrepancies) :
                          /\ ret.discrepancies[k].field = "total_amount"
                          /\ ret.discrepancies[k].difference = PyFloat(2)

\* C5: a total_amount discrepancy is recorded iff both amounts are stored
\* (a stored zero included) and their absolute difference exceeds 0.01.
C5_AmountDiscrepancyIff ==
    ComparisonReturned =>
        LET inv == invoices[ret.invoice_id]
            po == POOf(inv)
        IN  HasDiscrepancy(ret.discrepancies, "total_amount")
                <=> (/\ po.total_amount.t = "REAL"
                     /\ inv.total_amount.t = "REAL"
                     /\ FloatLess(Tolerance,
                                  AmountDifference(po.total_amount, inv.total_amount)))

\* C6: a vendor_name discrepancy is recorded iff both names are stored and
\* differ after ignoring letter case and leading/trailing whitespace.
C6_VendorDiscrepancyIff ==
    ComparisonReturned =>
        LET inv == invoices[ret.invoice_id]
            po == POOf(inv)
        IN  HasDiscrepancy(ret.discrepancies, "vendor_name")
                <=> (/\ po.vendor_name.t = "TEXT"
                     /\ inv.vendor_name.t = "TEXT"
                     /\ PyLower(Strip(po.vendor_name.s))
                            # PyLower(Strip(inv.vendor_name.s)))

\* C7: a run that resolves its purchase order and returns its result appends
\* exactly one report, for the run's invoice, and leaves every earlier
\* report as it was.
C7_OneNewReport ==
    [][(/\ ret'.op = "validate_invoice"
        /\ ret'.invoice_id \in 1..Len(invoices)
        /\ POIds(invoices[ret'.invoice_id].po_number) # {}
        /\ ret'.message = None)
       => /\ Len(validation_reports') = Len(validation_reports) + 1
          /\ SubSeq(validation_reports', 1, Len(validation_reports)) = validation_reports
          /\ ret'.report_id = Len(validation_reports')
          /\ validation_reports'[ret'.report_id].invoice_id = ret'.invoice_id]_vars

\* a second run on an invoice whose first report has been decided
C7_Witness ==
    /\ ComparisonReturned
    /\ ret.report_id = 2
    /\ validation_reports[1].invoice_id = validation_reports[2].invoice_id
    /\ validation_reports[1].approval_status = "rejected"
    /\ Len(validation_reports[1].report_content) = 2

ComparisonResultTexts ==
    {"Discrepancies found between invoice and purchase order",
     "Invoice matches purchase order"}

\* the status update of a comparison run and the run's report are stored
\* together or not at all
RunWritesTogether ==
    \A i \in 1..Len(invoices) :
        (invoices[i].validation_result \in ComparisonResultTexts)
            <=> (\E r \in 1..Len(validation_reports) :
                    validation_reports[r].invoice_id = i)

\* C8: in every committed state the status update of a comparison run and
\* its report are both present or both absent, and a failure between the
\* UPDATE and the INSERT leaves invoices and reports as before the run.
C8_AtomicRun ==
    [][/\ RunWritesTogether'
       /\ (ret'.op = "validate_invoice" /\ ret'.message = "sqlite3.Error")
              => (invoices' = invoices /\ validation_reports' = validation_reports)]_vars

\* the INSERT of a run on a pending invoice has failed
C8_Witness ==
    /\ ValidateReturned
    /\ ret.message = "sqlite3.Error"
    /\ invoices[ret.invoice_id].status = "pending"
    /\ invoices[ret.invoice_id].validation_result = None

\* C9: whenever validate_invoice returns for a stored invoice, an error
\* result included, the invoice's status is validated, discrepancies_found
\* or error.
C9_TerminalStatusAfterRun ==
    ValidateReturned =>
        invoices[ret.invoice_id].status \in {"validated", "discrepancies_found", "error"}

RunStatuses == {"validated", "discrepancies_found", "error"}
DecisionStatuses == {"approved", "rejected"}

\* C10: a status changes only from pending into a run status, by
\* validate_invoice, or into approved/rejected, by update_approval_status.
C10_StatusFromPendingOnly ==
    [][\A i \in 1..Len(invoices) :
          invoices'[i].status # invoices[i].status =>
              \/ /\ ret'.op = "validate_invoice"
                 /\ invoices[i].status = "pending"
                 /\ invoices'[i].status \in RunStatuses
              \/ /\ ret'.op = "update_approval_status"
                 /\ invoices'[i].status \in DecisionStatuses]_vars

\* C10 as amended: a status changes only into a run status, by a
\* validate_invoice run on that invoice whatever its status was, or into
\* approved/rejected, by update_approval_status; an invoice is stored as
\* pending and no status goes back to pending.
C10_StatusChanges ==
    [][/\ \A i \in 1..Len(invoices) :
             invoices'[i].status # invoices[i].status =>
                 \/ /\ ret'.op = "validate_invoice"
                    /\ ret'.invoice_id = i
                    /\ invoices'[i].status \in RunStatuses
                 \/ /\ ret'.op = "update_approval_status"
                    /\ invoices'[i].status \in DecisionStatuses
       /\ \A i \in (Len(invoices) + 1)..Len(invoices') :
             invoices'[i].status = "pending" /\ ret'.op = "add_invoice"]_vars

\* an approved invoice has been validated again and is validated
C10_Witness ==
    /\ ComparisonReturned
    /\ invoices[ret.invoice_id].status = "validated"
    /\ \E r \in 1..Len(validation_reports) :
          /\ validation_reports[r].invoice_id = ret.invoice_id
          /\ validation_reports[r].approval_status = "approved"

\* the reports of invoice i, by id
ReportsOf(i) ==
    {r \in 1..Len(validation_reports) : validation_reports[r].invoice_id = i}

\* the most recent report of invoice i (the ids grow with time)
LatestReportOf(i) == CHOOSE r \in ReportsOf(i) : \A k \in ReportsOf(i) : k <= r

\* an invoice status and an approval_status that say the same
StatusAgrees(status, approval_status) ==
    \/ status = "validated" /\ approval_status = "auto_approved"
    \/ status = "discrepancies_found" /\ approval_status = "requires_approval"
    \/ status = "approved" /\ approval_status = "approved"
    \/ status = "rejected" /\ approval_status = "rejected"

\* C11: in every committed state, the status of every invoice that has a
\* report agrees with the approval_status of its most recent report, also
\* after a decision on an older report of an invoice with several reports.
C11_StatusAgreesWithLatestReport ==
    \A i \in 1..Len(invoices) :
        ReportsOf(i) # {} =>
            StatusAgrees(invoices[i].status,
                         validation_reports[LatestReportOf(i)].approval_status)

\* the comment line update_approval_status appends for these comments
ExpectedCommentLine(comments) ==
    IF comments = None
    THEN [kind |-> "Approved without comments", text |-> None]
    ELSE [kind |-> "Approver Comments:", text |-> comments]

\* C12: update_approval_status on an existing report with a decision in
\* {approved, rejected} returns success and commits together: the report's
\* approval_status set to the decision, the owning invoice's status set to
\* the decision, exactly one comment line appended to the report content
\* (the given comments, or the default text when they are omitted); no
\* other report and no other invoice changes.
C12_DecisionEffects ==
    [][\A report_id \in 1..Len(validation_reports), decision \in Decisions,
          comments \in ApprovalComments :
          (/\ ret'.op = "update_approval_status"
           /\ ret'.arg = report_id
           /\ UpdateApprovalStatus(report_id, decision, comments))
          => LET owner == validation_reports[report_id].invoice_id IN
             /\ ret'.ok
             /\ Len(validation_reports') = Len(validation_reports)
             /\ Len(invoices') = Len(invoices)
             /\ validation_reports'[report_id].approval_status = decision
             /\ invoices'[owner].status = decision
             /\ validation_reports'[report_id].report_content =
                    Append(validation_reports[report_id].report_content,
                           ExpectedCommentLine(comments))
             /\ validation_reports'[report_id] =
                    [validation_reports[report_id] EXCEPT
                        !.approval_status = decision,
                        !.report_content = validation_reports'[report_id].report_content]
             /\ invoices'[owner] = [invoices[owner] EXCEPT !.status = decision]
             /\ \A r \in 1..Len(validation_reports) :
                    r # report_id => validation_reports'[r] = validation_reports[r]
             /\ \A i \in 1..Len(invoices) :
                    i # owner => invoices'[i] = invoices[i]]_vars

\* the last call was a successful update_approval_status
DecisionReturned ==
    /\ ret.op = "update_approval_status"
    /\ ret.ok

\* a rejection without comments of one invoice's report, next to another
\* invoice whose report still waits for its decision
C12_Witness ==
    /\ DecisionReturned
    /\ LET report == validation_reports[ret.arg] IN
        /\ report.approval_status = "rejected"
        /\ report.report_content[Len(report.report_content)] =
               [kind |-> "Approved without comments", text |-> None]
        /\ invoices[report.invoice_id].status = "rejected"
        /\ \E r \in 1..Len(validation_reports) :
              /\ validation_reports[r].invoice_id # report.invoice_id
              /\ validation_reports[r].approval_status = "requires_approval"
              /\ invoices[validation_reports[r].invoice_id].status = "discrepancies_found"

\* C13: update_approval_status with a report_id that matches no stored
\* report returns False, raising nothing, and leaves every invoice and
\* every report unchanged.
C13_UnknownReport ==
    [][\A report_id \in ReportIds, decision \in Decisions,
          comments \in ApprovalComments :
          (/\ ret'.op = "update_approval_status"
           /\ ret'.arg = report_id
           /\ report_id \notin 1..Len(validation_reports)
           /\ UpdateApprovalStatus(report_id, decision, comments))
          => /\ ret' = [op |-> "update_approval_status", arg |-> report_id,
                        ok |-> FALSE]
             /\ invoices' = invoices
             /\ validation_reports' = validation_reports
             /\ purchase_orders' = purchase_orders]_vars

\* a decision on report 2 has failed where only report 1 exists and waits
\* for its decision
C13_Witness ==
    /\ ret = [op |-> "update_approval_status", arg |-> 2, ok |-> FALSE]
    /\ Len(validation_reports) = 1
    /\ validation_reports[1].approval_status = "requires_approval"
    /\ invoices[validation_reports[1].invoice_id].status = "discrepancies_found"

CreationStatuses == {"requires_approval", "auto_approved"}

\* C14: a report's approval_status only moves forward: from its creation
\* value (requires_approval or auto_approved) to approved or rejected, never
\* out of approved or rejected and never back to a creation value.
C14_ApprovalStatusForwardOnly ==
    [][\A r \in 1..Len(validation_reports) :
          validation_reports'[r].approval_status # validation_reports[r].approval_status
          => /\ validation_reports[r].approval_status \in CreationStatuses
             /\ validation_reports'[r].approval_status \in DecisionStatuses]_vars

\* C15: a second update_approval_status on a report that has been decided,
\* with the other decision, succeeds too: the report's approval_status and
\* the owning invoice's status become the second decision, and the second
\* comment line is appended after the first one.
C15_SecondDecisionWins ==
    [][\A report_id \in 1..Len(validation_reports), decision \in Decisions,
          comments \in ApprovalComments :
          (/\ ret'.op = "update_approval_status"
           /\ ret'.arg = report_id
           /\ validation_reports[report_id].approval_status \in Decisions \ {decision}
           /\ UpdateApprovalStatus(report_id, decision, comments))
          => LET before == validation_reports[report_id]
                 after == validation_reports'[report_id]
             IN  /\ ret'.ok
                 /\ after.approval_status = decision
                 /\ invoices'[before.invoice_id].status = decision
                 /\ Len(after.report_content) = Len(before.report_content) + 1
                 /\ SubSeq(after.report_content, 1, Len(before.report_content))
                        = before.report_content
                 /\ after.report_content[Len(after.report_content)]
                        = ExpectedCommentLine(comments)]_vars

\* reject <id> and then approve <id>, both without comments, on one report:
\* it is approved, so is its invoice, and the two lines stand in call order
C15_Witness ==
    /\ DecisionReturned
    /\ LET report == validation_reports[ret.arg] IN
        /\ Len(report.report_content) = 3
        /\ report.report_content[2] =
               [kind |-> "Approver Comments:", text |-> "Rejected without comments"]
        /\ report.report_content[3] =
               [kind |-> "Approver Comments:", text |-> "Approved without comments"]
        /\ report.approval_status = "approved"
        /\ invoices[report.invoice_id].status = "approved"

\* C18: add_purchase_order with a po_number that is stored returns False and
\* leaves the stored purchase order as it is; no two stored purchase orders
\* have the same po_number.
C18_DuplicatePurchaseOrder ==
    [][/\ \A po_data \in PODataSet :
             (/\ ret'.op = "add_purchase_order"
              /\ POIds(po_data.po_number) # {}
              /\ AddPurchaseOrder(po_data))
             => /\ ret'.ok = FALSE
                /\ purchase_orders' = purchase_orders
       /\ \A i, k \in 1..Len(purchase_orders') :
             purchase_orders'[i].po_number = purchase_orders'[k].po_number => i = k]_vars

\* a second add_purchase_order for PO100 has been refused; the stored order
\* keeps its non-numeric amount
C18_Witness ==
    /\ ret = [op |-> "add_purchase_order", arg |-> "PO100", ok |-> FALSE]
    /\ Len(purchase_orders) = 1
    /\ purchase_orders[1].po_number = "PO100"
    /\ purchase_orders[1].total_amount = TextAmount

\* no two stored invoices carry the same invoice_number
NumbersUnique(table) ==
    \A i, k \in 1..Len(table) :
        (table[i].invoice_number # None
         /\ table[i].invoice_number = table[k].invoice_number) => i = k

\* C16: at most one row is stored per invoice_number; add_invoice returns an
\* id exactly when the number is not stored yet, and otherwise returns None
\* and leaves the stored rows as they are; in process_email the returned
\* list and the CSV log get one entry per row the call has stored and none
\* for a duplicate, and no report is created.
C16_DuplicateInvoice ==
    [][LET n == Len(invoices)
           added == Len(invoices') - Len(invoices)
       IN  /\ NumbersUnique(invoices')
           /\ ret'.op = "add_invoice" =>
                 /\ SubSeq(invoices', 1, n) = invoices
                 /\ (ret'.id # 0) <=> (UniqueConflicts(invoices, ret'.arg) = {})
                 /\ ret'.id # 0 =>
                       /\ added = 1
                       /\ ret'.id = n + 1
                       /\ invoices'[n + 1].invoice_number = ret'.arg
                 /\ ret'.id = 0 => invoices' = invoices
           /\ ret'.op = "process_email" =>
                 /\ SubSeq(invoices', 1, n) = invoices
                 /\ validation_reports' = validation_reports
                 /\ \A i \in 1..added :
                       UniqueConflicts(invoices, invoices'[n + i].invoice_number) = {}
                 /\ ~ret'.raised =>
                       ret'.processed_invoices = [i \in 1..added |-> n + i]
                 /\ invoice_log' =
                       invoice_log \o [i \in 1..added |-> invoices'[n + i].invoice_number]
      ]_vars

\* process_email on message m2, whose attachments hold INV1 and INV2, where
\* INV1 was stored by the client and has a report: only INV2 is stored,
\* returned and logged, and the row of INV1 keeps the client's vendor name
C16_Witness ==
    /\ ret.op = "process_email"
    /\ ret.arg = "m2"
    /\ ret.processed_invoices = <<2>>
    /\ invoice_log = <<"INV2">>
    /\ Len(invoices) = 2
    /\ invoices[1].invoice_number = "INV1"
    /\ invoices[1].vendor_name = Text(<<"C", "d">>)
    /\ invoices[2].invoice_number = "INV2"
    /\ Len(validation_reports) = 1

\* C19: when process_email returns, every invoice it has stored has been
\* through validate_invoice: its status is no longer pending and, if its
\* purchase order is stored, it owns a report.
C19_AcceptedDocumentsReconciled ==
    (ret.op = "process_email" /\ ~ret.raised) =>
        \A k \in 1..Len(ret.processed_invoices) :
            LET i == ret.processed_invoices[k] IN
            /\ invoices[i].status # "pending"
            /\ POIds(invoices[i].po_number) # {} => ReportsOf(i) # {}

\* the message ids written in processed_emails.json
SavedIds(file) ==
    IF file = NoFile THEN {} ELSE {file.items[i].chars : i \in 1..Len(file.items)}

\* C20: process_email on a message whose Message-ID is in the processed set
\* returns an empty list and writes nothing to the store or the CSV log;
\* the id of every processed message is in the set, the set only grows
\* while the process lives, save_processed_emails writes exactly the set,
\* and a new InvoiceMonitor starts from exactly the saved set.
C20_ProcessedOnce ==
    [][/\ (ret'.op = "process_email" /\ ret'.arg \in processed_emails) =>
             /\ ret'.processed_invoices = <<>>
             /\ ret'.skipped /\ ~ret'.raised
             /\ purchase_orders' = purchase_orders
             /\ invoices' = invoices
             /\ validation_reports' = validation_reports
             /\ invoice_log' = invoice_log
       /\ ret'.op = "process_email" => ret'.arg \in processed_emails'
       /\ ret'.op # "InvoiceMonitor" => processed_emails \subseteq processed_emails'
       /\ ret'.op = "save_processed_emails" =>
             SavedIds(processed_emails_file') = processed_emails
       /\ ret'.op = "InvoiceMonitor" =>
             processed_emails' = SavedIds(processed_emails_file)
       /\ SavedIds(processed_emails_file') \subseteq processed_emails'
      ]_vars

\* the first process_email call of a second InvoiceMonitor is for message
\* m1, which the first one processed and saved: it is skipped, and INV1 is
\* stored and logged once
C20_Witness ==
    /\ instance = 2
    /\ calls = 1
    /\ ret.op = "process_email"
    /\ ret.arg = "m1"
    /\ ret.skipped
    /\ "m1" \in SavedIds(processed_emails_file)
    /\ invoice_log = <<"INV1">>
    /\ Len(invoices) = 1

\* C17: when two connections have each made one add_invoice call with the
\* same invoice_number at the same time, exactly one call has returned an
\* id, the other one None, and one row with that number is stored.
C17_ExactlyOneWriterSucceeds ==
    (/\ \A w \in Writers : writers[w].pc = "returned"
     /\ writers[1].invoice_data.invoice_number = writers[2].invoice_data.invoice_number)
    => /\ Cardinality({w \in Writers : writers[w].result # 0}) = 1
       /\ Cardinality(UniqueConflicts(invoices, writers[1].invoice_data.invoice_number)) = 1

\* the calls of send_validation_report made for report r
NotificationsOf(r) == {i \in 1..Len(notifications) : notifications[i].report_id = r}

\* C24 (as stated): validate_invoice calls send_validation_report in exactly
\* the runs whose discrepancy set is non-empty: every report with
\* discrepancies has one notification attempt, and no other run has one.
C24_NotifiedIffDiscrepancies ==
    /\ \A i \in 1..Len(notifications) :
           notifications[i].report_id \in 1..Len(validation_reports)
    /\ \A r \in 1..Len(validation_reports) :
           Cardinality(NotificationsOf(r)) =
               IF validation_reports[r].discrepancies.t # "NULL" THEN 1 ELSE 0

\* C24 (amended): a run of validate_invoice calls send_validation_report
\* exactly when its discrepancy set is non-empty and an approver address is
\* configured; the call is for the run's report.  No run with an empty set,
\* an unresolved purchase order or an error makes the call.
C24_NotifiedIffDiscrepanciesAndApprover ==
    [][\A ident \in Identifiers, fault \in NotifyFaults :
           (/\ ret'.op = "validate_invoice"
            /\ ResolveIdentifier(ident) = ret'.invoice_id
            /\ ValidateInvoice(ident, fault))
           => IF ret'.status = "discrepancies_found" /\ fault # "no approver"
              THEN /\ Len(notifications') = Len(notifications) + 1
                   /\ notifications'[Len(notifications')].report_id = ret'.report_id
                   /\ notifications'[Len(notifications')].body = ret'.report_content
              ELSE notifications' = notifications]_vars

\* a run with a discrepancy has notified the approver, and an earlier run
\* without one has not
C24_Witness ==
    /\ ret.op = "validate_invoice"
    /\ ret.status = "discrepancies_found"
    /\ ret.report_id = 2
    /\ NotificationsOf(2) # {}
    /\ validation_reports[1].discrepancies.t = "NULL"
    /\ NotificationsOf(1) = {}

\* C25: a step that attempts a notification, sent or not, has committed the
\* run's report and the invoice's status, and returns the result with the
\* report id and without an error.
C25_NotificationAfterCommit ==
    [][notifications' # notifications
       => LET n == notifications'[Len(notifications')] IN
          /\ Len(validation_reports') = Len(validation_reports) + 1
          /\ n.report_id = Len(validation_reports')
          /\ ret'.op = "validate_invoice"
          /\ ret'.status = "discrepancies_found"
          /\ ret'.report_id = n.report_id
          /\ validation_reports'[n.report_id].invoice_id = ret'.invoice_id
          /\ validation_reports'[n.report_id].approval_status = "requires_approval"
          /\ invoices'[ret'.invoice_id].status = "discrepancies_found"]_vars

\* a notification that was not sent, after which the run has returned its
\* result and the report is stored
C25_Witness ==
    /\ notifications # <<>>
    /\ ~notifications[Len(notifications)].sent
    /\ ret.op = "validate_invoice"
    /\ ret.status = "discrepancies_found"
    /\ ret.report_id = notifications[Len(notifications)].report_id
    /\ Len(validation_reports) = ret.report_id

\* C21: at every moment of monitor_mailbox the message ids that are in the
\* in-memory set and not in processed_emails.json belong to the batch that
\* is being processed (to no batch when none is), also after a batch that
\* ended with an exception.
C21_UnsavedIdsInCurrentBatch ==
    (processed_emails \ SavedIds(processed_emails_file)) \subseteq loop.batch_ids

\* the connect_to_mailbox call in progress, or the last one made: attempts
\* and waits made so far, by the position of the loop
ConnectCallWithinRetries ==
    /\ loop.attempt <= retries
    /\ loop.waits <= retries - 1
    /\ loop.pc = "connect" => loop.waits = loop.attempt
    /\ loop.pc = "delay" => loop.attempt < retries /\ loop.waits = loop.attempt - 1
    /\ loop.pc = "unreachable" =>
           loop.attempt = retries /\ loop.waits = retries - 1
    /\ loop.pc \in {"select", "batch", "document", "sleep"} =>
           loop.attempt >= 1 /\ loop.waits = loop.attempt - 1

\* C22: connect_to_mailbox makes at most retries attempts, returns at the
\* first one that succeeds, waits only between a failed attempt and the next
\* one, and returns None after the last failure; monitor_mailbox then waits
\* and starts a new cycle with a new connect_to_mailbox call (unless the
\* process is interrupted).
C22_ConnectRetries ==
    [][/\ ConnectCallWithinRetries'
       /\ (loop.pc = "unreachable" /\ loop'.pc # "unreachable")
          => \/ loop'.pc = "stopped"
             \/ loop'.pc = "connect" /\ loop'.attempt = 0 /\ loop'.waits = 0]_vars

\* every attempt of a call has failed: None is returned
C22_Witness ==
    /\ loop.pc = "unreachable"
    /\ loop.attempt = retries
    /\ loop.waits = retries - 1

\* C23: when the loop has been stopped by an interrupt, no message is left
\* whose id is in the processed set while process_email was cut before the
\* message's detection, extraction and store writes.
C23_StoppedBetweenDocuments ==
    loop.pc = "stopped" => loop.document = None

\* the call of is_potential_invoice the state holds the return of
DetectorReturned == ret.op = "is_potential_invoice"

\* C26 (as stated): for every text in which fewer than 2 keywords of the
\* vocabulary are matched, is_potential_invoice returns false.
C26_FewKeywordsRejected ==
    (DetectorReturned /\ keyword_matches(Scan(ret.arg)) < 2) => ~ret.value

\* C26 (amended): for every text in which fewer than 2 keywords are matched,
\* is_potential_invoice returns true exactly when the text matches both the
\* 'invoice #<token>' and the 'total[:$]<digits>' pattern, and false
\* otherwise.
C26_FewKeywordsRejectedUnlessPatterns ==
    (DetectorReturned /\ keyword_matches(Scan(ret.arg)) < 2)
    => (ret.value <=> /\ Search(InvoiceHashPattern, PyLower(ret.arg)).found
                      /\ Search(TotalDigitsPattern, PyLower(ret.arg)).found)

\* a text with the one keyword 'invoice' that the two patterns accept
C26_Witness ==
    /\ DetectorReturned
    /\ keyword_matches(Scan(ret.arg)) = 1
    /\ ret.value

\* the vocabulary terms that occur in the text in any letter case
TermsInAnyCase(text) ==
    {keyword \in invoice_keywords :
         Occurs(PyLower(KeywordChars(keyword)), PyLower(text))}

\* C27: is_potential_invoice returns true exactly when k >= 3, or k >= 2 and
\* one of 'invoice number', 'purchase order', 'total amount' occurs, or both
\* patterns match, k counting every vocabulary term (VAT and GST included)
\* that occurs in the text in any letter case.
C27_DetectorRule ==
    DetectorReturned
    => LET k == Cardinality(TermsInAnyCase(ret.arg)) IN
       ret.value <=>
           \/ k >= 3
           \/ /\ k >= 2
              /\ TermsInAnyCase(ret.arg)
                     \cap {"invoice number", "purchase order", "total amount"} # {}
           \/ /\ Search(InvoiceHashPattern, PyLower(ret.arg)).found
              /\ Search(TotalDigitsPattern, PyLower(ret.arg)).found

\* C28: is_potential_invoice('') is false, and process_email on a message
\* with an attachment without text (m2) inserts no row for it, raises
\* nothing and goes on to the attachments after it.
C28_EmptyTextIsNoInvoice ==
    /\ ~is_potential_invoice(<<>>)
    /\ (ret.op = "process_email" /\ ret.arg = "m2" /\ ~ret.skipped)
       => /\ ~ret.raised
          /\ \A i \in 1..Len(invoices) : invoices[i].invoice_number # None
          /\ InvoiceIdByNumber("INV1") # 0
          /\ InvoiceIdByNumber("INV2") # 0

\* the message with the empty attachment has been processed and the invoice
\* of a later attachment was added by this call
C28_Witness ==
    /\ ret.op = "process_email"
    /\ ret.arg = "m2"
    /\ ~ret.skipped
    /\ ret.processed_invoices # <<>>

\* the extractor has returned (or raised) for the text in ret.text
ExtractReturned == ret.op = "extract_invoice_details_from_text"

ExampleInvoiceNumber == <<"I", "n", "v", "o", "i", "c", "e", " ", "#", " ", "4", "4", "1", "2">>
ExampleTotalAmount == <<"T", "o", "t", "a", "l", " ", "A", "m", "o", "u", "n", "t", ":", " ", "$", "1", ",", "2", "5", "0", ".", "0", "0">>

\* C29: for a text that contains 'Invoice # 4412' and 'Total Amount: $1,250.00'
\* the extractor returns invoice_number '4412' and total_amount 1250.00 (the
\* labelled total with a colon, a space, a currency symbol and thousands
\* separators is parsed to its value)
C29_LabelledTotalParsed ==
    (/\ ExtractReturned
     /\ Occurs(ExampleInvoiceNumber, ret.text)
     /\ Occurs(ExampleTotalAmount, ret.text))
        => /\ ~ret.value.raised
           /\ ret.value.invoice_number = Text(<<"4", "4", "1", "2">>)
           /\ ret.value.total_amount = Real(125000)

\* no pattern of the list is found in the text, case ignored
NoRuleMatches(patterns, text) ==
    \A k \in 1..Len(patterns) : ~SearchIgnoreCase(patterns[k], text).found

\* no vendor rule applies: the vendor pattern is not in the text and there
\* is no sender with a local part before an @
NoVendorRule(text, email_sender) ==
    /\ NoRuleMatches(<<VendorPattern>>, text)
    /\ \/ email_sender = NullText
       \/ email_sender.s = <<>>
       \/ ~Search(SenderPattern, email_sender.s).found

\* no currency rule applies: no currency code after 'currency' or 'in' and
\* no currency symbol in the text
NoCurrencyRule(text) ==
    /\ NoRuleMatches(<<CurrencyPattern>>, text)
    /\ \A i \in 1..Len(text) : text[i] \notin {"$", "€", "£"}

\* C30: the extractor never raises, every field for which no rule matches is
\* None (not 0, not the empty string), currency is 'USD' when no currency
\* rule matches, and status is 'pending'
C30_NeverRaisesUnmatchedNull ==
    ExtractReturned =>
        LET d == ret.value
            text == ret.text
        IN  /\ ~d.raised
            /\ NoRuleMatches(<<InvoiceNumberPattern, AltInvoiceNumberPattern>>, text)
                  => d.invoice_number = NullText
            /\ NoRuleMatches(<<PurchaseOrderPattern, AltPurchaseOrderPattern>>, text)
                  => d.purchase_order = NullText
            /\ NoRuleMatches(<<TotalAmountPattern, AltTotalAmountPattern>>, text)
                  => d.total_amount = NullAmount
            /\ (/\ ~Search(InvoiceDatePattern, text).found
                /\ NoRuleMatches(<<AltInvoiceDatePattern>>, text))
                  => d.invoice_date = NullText
            /\ NoVendorRule(text, ret.email_sender) => d.vendor_name = NullText
            /\ NoRuleMatches(<<DueDatePattern>>, text) => d.due_date = NullText
            /\ NoRuleMatches(<<TaxPattern>>, text) => d.tax_amount = NullAmount
            /\ NoRuleMatches(<<SubtotalPattern>>, text) => d.subtotal = NullAmount
            /\ NoCurrencyRule(text) => d.currency = <<"U", "S", "D">>
            /\ d.status = "pending"

\* a text that no rule matches has come back, without a sender, with its
\* fields None, currency 'USD' and status 'pending'
C30_Witness ==
    /\ ExtractReturned
    /\ ret.text = <<"h", "e", "l", "l", "o">>
    /\ ret.email_sender = NullText
    /\ ~ret.value.raised
    /\ ret.value.invoice_number = NullText
    /\ ret.value.total_amount = NullAmount
    /\ ret.value.vendor_name = NullText
    /\ ret.value.currency = <<"U", "S", "D">>
    /\ ret.value.status = "pending"

\* what a field with a primary and a fallback rule must hold: the primary
\* rule's capture when the primary rule matches, else the fallback's capture
\* when the fallback matches, else nothing
PrimaryThenFallback(primary, fallback, value, of_capture(_), null) ==
    /\ primary.found => value = of_capture(primary)
    /\ (~primary.found /\ fallback.found) => value = of_capture(fallback)
    /\ (~primary.found /\ ~fallback.found) => value = null

\* C31: invoice_number, purchase_order, total_amount and invoice_date hold
\* the primary rule's capture whenever the primary rule matches somewhere in
\* the text, the fallback rule's capture only when the primary rule does not
\* match, and None when neither matches
C31_PrimaryBeforeFallback ==
    ExtractReturned =>
        LET d == ret.value
            text == ret.text
            CaptureText(m) == Text(Group1(m, text))
            CaptureAmount(m) == AmountOf(Group1(m, text)).value
            WholeText(m) == IF m.g = NoGroup THEN Text(Group0(m, text))
                            ELSE Text(Group1(m, text))
        IN  /\ PrimaryThenFallback(SearchIgnoreCase(InvoiceNumberPattern, text),
                                   SearchIgnoreCase(AltInvoiceNumberPattern, text),
                                   d.invoice_number, CaptureText, NullText)
            /\ PrimaryThenFallback(SearchIgnoreCase(PurchaseOrderPattern, text),
                                   SearchIgnoreCase(AltPurchaseOrderPattern, text),
                                   d.purchase_order, CaptureText, NullText)
            /\ PrimaryThenFallback(SearchIgnoreCase(TotalAmountPattern, text),
                                   SearchIgnoreCase(AltTotalAmountPattern, text),
                                   d.total_amount, CaptureAmount, NullAmount)
            /\ PrimaryThenFallback(Search(InvoiceDatePattern, text),
                                   SearchIgnoreCase(AltInvoiceDatePattern, text),
                                   d.invoice_date, WholeText, NullText)

\* a text in which the fallback rule for the invoice number matches before
\* the primary rule does has come back with the primary rule's capture
C31_Witness ==
    /\ ExtractReturned
    /\ Occurs(<<"I", "n", "v", "o", "i", "c", "e", " ", "N", "o", ".", " ", "7", "7">>, ret.text)
    /\ Occurs(ExampleInvoiceNumber, ret.text)
    /\ SearchIgnoreCase(AltInvoiceNumberPattern, ret.text).from
         < SearchIgnoreCase(InvoiceNumberPattern, ret.text).from
    /\ ret.value.invoice_number = Text(<<"4", "4", "1", "2">>)

CurrencyCodes ==
    {<<"U", "S", "D">>, <<"E", "U", "R">>, <<"G", "B", "P">>, <<"J", "P", "Y">>, <<"C", "A", "D">>, <<"A", "U", "D">>, <<"C", "H", "F">>}

HasChar(ch, text) == \E i \in 1..Len(text) : text[i] = ch

\* C32: the currency is the upper-cased code found after 'currency' or 'in'
\* whatever symbols the text holds; without a code it is USD if '$' occurs,
\* else EUR if the euro sign occurs, else GBP if the pound sign occurs, else
\* USD; it is always one of the seven codes
C32_CurrencyRule ==
    ExtractReturned =>
        LET text == ret.text
            currency == ret.value.currency
            code == SearchIgnoreCase(CurrencyPattern, text)
        IN  /\ currency \in CurrencyCodes
            /\ code.found => currency = PyUpper(Group1(code, text))
            /\ ~code.found =>
                  currency = IF HasChar("$", text) THEN <<"U", "S", "D">>
                             ELSE IF HasChar("€", text) THEN <<"E", "U", "R">>
                             ELSE IF HasChar("£", text) THEN <<"G", "B", "P">>
                             ELSE <<"U", "S", "D">>

\* a text with the code 'eur' in lower case and a pound sign has come back
\* with currency EUR
C32_Witness ==
    /\ ExtractReturned
    /\ Occurs(<<"i", "n", " ", "e", "u", "r">>, ret.text)
    /\ HasChar("£", ret.text)
    /\ ret.value.currency = <<"E", "U", "R">>

\* two stored names that differ when letter case is ignored
NamesDiffer(po_vendor, invoice_vendor) ==
    /\ po_vendor.t = "TEXT"
    /\ invoice_vendor.t = "TEXT"
    /\ PyLower(po_vendor.s) # PyLower(invoice_vendor.s)

\* two stored amounts more than one cent apart
AmountsDiffer(po_amount, invoice_amount) ==
    /\ po_amount.t = "REAL"
    /\ invoice_amount.t = "REAL"
    /\ (po_amount.c - invoice_amount.c > 1 \/ invoice_amount.c - po_amount.c > 1)

\* C33: the vendor check and the amount check are independent: a run whose
\* vendor names differ and whose amounts differ by more than 0.01 records
\* exactly two discrepancies, vendor_name and then total_amount with the
\* absolute difference, leaves the invoice discrepancies_found and creates
\* its report with requires_approval; a run whose names and amounts are
\* equal records none and yields validated / auto_approved
C33_IndependentChecks ==
    ComparisonReturned =>
        LET inv == invoices[ret.invoice_id]
            po == POOf(inv)
            report == validation_reports[ret.report_id]
        IN  /\ (/\ NamesDiffer(po.vendor_name, inv.vendor_name)
                /\ AmountsDiffer(po.total_amount, inv.total_amount))
                  => /\ Len(ret.discrepancies) = 2
                     /\ ret.discrepancies[1].field = "vendor_name"
                     /\ ret.discrepancies[2].field = "total_amount"
                     /\ ret.discrepancies[2].difference
                          = PyAbs(FloatSub(PyFloat(po.total_amount.c),
                                           PyFloat(inv.total_amount.c)))
                     /\ ret.status = "discrepancies_found"
                     /\ inv.status = "discrepancies_found"
                     /\ report.approval_status = "requires_approval"
            /\ (/\ po.vendor_name.t = "TEXT"
                /\ po.vendor_name = inv.vendor_name
                /\ po.total_amount.t = "REAL"
                /\ po.total_amount = inv.total_amount)
                  => /\ ret.discrepancies = <<>>
                     /\ ret.status = "validated"
                     /\ inv.status = "validated"
                     /\ report.approval_status = "auto_approved"

ApprovalStatusOf(r) == validation_reports[r].approval_status

Decided(r) == ApprovalStatusOf(r) \in {"approved", "rejected"}

\* C34: get_pending_approvals returns exactly the reports whose
\* approval_status is requires_approval, each once; a report stays
\* requires_approval (listed) until a successful update_approval_status
\* decides it, and a decided report stays decided, so it is never listed
\* again
C34_PendingApprovals ==
    /\ [](ret.op = "get_pending_approvals" =>
            /\ {ret.value[k].report_id : k \in 1..Len(ret.value)}
                 = {r \in 1..Len(validation_reports) :
                       ApprovalStatusOf(r) = "requires_approval"}
            /\ \A j, k \in 1..Len(ret.value) :
                   ret.value[j].report_id = ret.value[k].report_id => j = k
            /\ \A k \in 1..Len(ret.value) :
                   ret.value[k].invoice_number
                     = invoices[validation_reports[ret.value[k].report_id].invoice_id]
                         .invoice_number)
    /\ [][\A r \in 1..Len(validation_reports) :
            /\ Decided(r) => Decided(r)'
            /\ (ApprovalStatusOf(r) = "requires_approval"
                 /\ ApprovalStatusOf(r)' # "requires_approval")
                  => /\ ret'.op = "update_approval_status"
                     /\ ret'.arg = r
                     /\ ret'.ok
                     /\ Decided(r)']_vars

\* two reports were created with discrepancies, both have been decided, and
\* the listing made afterwards is empty
C34_Witness ==
    /\ ret.op = "get_pending_approvals"
    /\ ret.value = <<>>
    /\ Len(validation_reports) = 2
    /\ \A r \in 1..2 :
          /\ validation_reports[r].discrepancies.t = "TEXT"
          /\ Decided(r)

InvoiceStatuses ==
    {"pending", "validated", "discrepancies_found", "error", "approved", "rejected"}

ApprovalStatuses == {"auto_approved", "requires_approval", "approved", "rejected"}

\* C35: every stored invoice's status is one of pending, validated,
\* discrepancies_found, error, approved, rejected and every stored report's
\* approval_status is one of auto_approved, requires_approval, approved,
\* rejected (never the schema default 'pending')
C35_StatusDomains ==
    /\ \A i \in 1..Len(invoices) : invoices[i].status \in InvoiceStatuses
    /\ \A r \in 1..Len(validation_reports) :
          validation_reports[r].approval_status \in ApprovalStatuses

\* an invoice left in error by a validation without purchase order stands
\* next to an invoice that a decision on its report has just rejected
C35_Witness ==
    /\ ret.op = "update_approval_status"
    /\ ret.ok
    /\ \E i \in 1..Len(invoices) : invoices[i].status = "error"
    /\ \E r \in 1..Len(validation_reports) :
          /\ validation_reports[r].approval_status = "rejected"
          /\ invoices[validation_reports[r].invoice_id].status = "rejected"

\* C36: the identifier of a message is in the processed set after every
\* process_email call for it, also after a call that an exception has
\* aborted; process_email never takes an identifier out of the set; and a
\* call for a message whose identifier is in the set is skipped, so a
\* message whose processing was aborted is not processed again
C36_AbortedMessageNotRetried ==
    [][ret'.op = "process_email" =>
          /\ ret'.arg \in processed_emails'
          /\ ret'.raised => (ret'.arg \notin processed_emails /\ ~ret'.skipped)
          /\ processed_emails \subseteq processed_emails'
          /\ ret'.arg \in processed_emails =>
                /\ ret'.skipped
                /\ ~ret'.raised
                /\ ret'.processed_invoices = <<>>
                /\ invoices' = invoices
                /\ invoice_log' = invoice_log
                /\ processed_emails' = processed_emails
      ]_vars

\* message m3, whose second attachment cannot be read, has been given to
\* process_email twice by one InvoiceMonitor: the first call stored INV2 and
\* was aborted, the second call has been skipped
C36_Witness ==
    /\ ret.op = "process_email"
    /\ ret.arg = "m3"
    /\ ret.skipped
    /\ instance = 1
    /\ calls = 2
    /\ processed_emails = {"m3"}
    /\ Len(invoices) = 1
    /\ invoices[1].invoice_number = "INV2"

\* C37: every message without a Message-ID header has the empty string as
\* its key: once the empty string is in the processed set, process_email
\* skips every message without the header, whichever document it carries,
\* and stores and logs nothing for it
C37_MessagesWithoutIdShareKey ==
    [][\A email_message \in UnidentifiedMessages :
          (ret'.op = "process_email" /\ ProcessEmail(email_message)) =>
              /\ ret'.arg = ""
              /\ "" \in processed_emails =>
                    /\ ret'.skipped
                    /\ ret'.processed_invoices = <<>>
                    /\ invoices' = invoices
                    /\ invoice_log' = invoice_log
      ]_vars

\* one message without the header has been processed and its invoice INV1
\* stored; a later call for a message without the header has been skipped,
\* and the invoice INV2 of the other message is not in the store
C37_Witness ==
    /\ ret.op = "process_email"
    /\ ret.arg = ""
    /\ ret.skipped
    /\ processed_emails = {""}
    /\ Len(invoices) = 1
    /\ invoices[1].invoice_number = "INV1"

\* C38: constructing a DatabaseManager on a store populated through
\* add_invoice, validate_invoice and update_approval_status deletes and
\* changes no invoice, purchase order or report row, also when several
\* invoices are stored without an invoice number
C38_ReopenPreservesData ==
    [][ret'.op = "DatabaseManager" =>
          /\ invoices' = invoices
          /\ purchase_orders' = purchase_orders
          /\ validation_reports' = validation_reports
      ]_vars

\* the store holds a purchase order with this number that is not active
InactiveOrder(po_number) ==
    \E i \in 1..Len(purchase_orders) :
        /\ purchase_orders[i].po_number = po_number
        /\ purchase_orders[i].status # "active"

C40_NoGuardOnStateOrValue ==
    [][\A report_id \in 1..Len(validation_reports),
          approval_status \in DecisionValues, comments \in ReconcileComments :
          (/\ ret'.op = "update_approval_status"
           /\ ret'.arg = report_id
           /\ UpdateApprovalStatus(report_id, approval_status, comments))
          => LET before == validation_reports[report_id]
                 after == validation_reports'[report_id]
             IN  /\ ret'.ok
                 /\ after.approval_status = approval_status
                 /\ invoices'[before.invoice_id].status =
                        (IF approval_status = "approved"
                         THEN "approved" ELSE "rejected")
                 /\ Len(after.report_content) = Len(before.report_content) + 1
                 /\ after.report_content[Len(after.report_content)] =
                        (IF comments = None
                         THEN [kind |-> "Approved without comments", text |-> None]
                         ELSE [kind |-> "Approver Comments:", text |-> comments])
      ]_vars

\* a report created auto_approved was approved with comments and then given
\* the value 'on_hold' without comments: the report carries 'on_hold' and
\* the line 'Approved without comments', and its invoice is rejected
C40_Witness ==
    /\ ret.op = "update_approval_status"
    /\ ret.ok
    /\ LET report == validation_reports[ret.arg] IN
        /\ report.discrepancies = DiscrepanciesColumn(<<>>)
        /\ Len(report.report_content) = 3
        /\ report.report_content[2] =
               [kind |-> "Approver Comments:", text |-> "ok"]
        /\ report.report_content[3] =
               [kind |-> "Approved without comments", text |-> None]
        /\ report.approval_status = "on_hold"
        /\ invoices[report.invoice_id].status = "rejected"

====
